---- MODULE Spec2Model ----
(***************************************************************************)
(* A model of the master actor of codecrafters-redis-rust: the store       *)
(* (strings with lazy expiry, streams with (timestamp, sequence) ids), the *)
(* command dispatcher with transactions, replication fan-out, WAIT and     *)
(* blocking XREAD, as written in src/src/actor/master.rs and               *)
(* src/src/store/.                                                         *)
(*                                                                         *)
(* Option<T> is modelled as a sequence: <<>> is None, <<x>> is Some(x).    *)
(* Strings are TLA+ strings; RESP replies are built character for          *)
(* character the way the code's format! calls build them.                  *)
(***************************************************************************)
EXTENDS Integers, Sequences, FiniteSets, TLC

VARIABLES
    store,                \* MasterActor.store.store : key -> Option<Item>
    replication_offset,   \* MasterActor.replication.replication_offset
    last_offset_checked,  \* MasterActor.replication.last_offset_checked
    replicas,             \* MasterActor.replicas : Vec<Sender>
    wait_for_replication_acks, \* Option<WaitForReplicationAcks>
    blocking_xreads,      \* Vec<BlockingXREAD>
    transactions,         \* IndexMap<ConnectionID, Transaction>
    rx,                   \* the actor's inbound queue of StoreMessage
    out,                  \* per connection: every message enqueued on its reply channel
    status,               \* "running", "blocked" (parked in recv) or "panicked"
    utc_now,              \* the wall clock in ms (chrono::Utc::now)
    instant,              \* the monotonic clock in ms (std::time::Instant::now)
    rdb_readable,         \* whether fs::read("empty.rdb") succeeds
    overflow_checks,      \* build profile: TRUE panics on overflow, FALSE wraps
    written,              \* history: keys some executed SET, INCR or XADD has stored
    ncmds,                \* history: number of commands the connections forwarded
    replica,              \* the ReplicaActor fed by the master: its fields and channels
    delivered,            \* messages of the master's link the replica has read so far
    wire,                 \* the frames of the buffer a connection read last
    decoded,              \* what parse_buffer made of that buffer
    closed,               \* history: the connections whose peer closed the socket
    handshake             \* init_replication: its position, what it sent, the replies it read

vars == <<store, replication_offset, last_offset_checked, replicas,
          wait_for_replication_acks, blocking_xreads, transactions, rx, out,
          status, utc_now, instant, rdb_readable, overflow_checks, written, ncmds,
          replica, delivered, wire, decoded, closed, handshake>>

(***************************************************************************)
(* Bounds of the model.                                                    *)
(***************************************************************************)
\* usize::MAX of the modelled machine word (the code's usize, scaled down).
UsizeMax == 3
\* Largest timestamp a client writes in an XADD id of the checked runs.
MaxTs == 1
\* Largest value of the wall clock and of the monotonic clock.
MaxClock == 2
\* Commands the connections forward in one run.
MaxCmds == 3
\* Commands waiting in the actor's queue between two polls.
MaxQueue == 2

None == <<>>
Some(x) == <<x>>
IsSome(o) == o # <<>>
Unwrap(o) == o[1]

Conns == {"c1", "c2"}
\* The reply channel process_exec creates for the commands it runs, while
\* process_exec is running (DummyOpen) and after it returned and dropped the
\* receiver (DummyClosed).
DummyOpen == "dummy"
DummyClosed == "dropped"
Keys == {"k1", "k2"}
Values == {"v1", "v2"}

SendString(s) == [t |-> "SendString", v |-> s]
SendBytes(b) == [t |-> "SendBytes", v |-> b]

(***************************************************************************)
(* Numbers on the wire.                                                    *)
(***************************************************************************)
\* str::parse::<usize>: the number a decimal token denotes, None when the
\* token is no number or does not fit a usize.
UsizeOfToken ==
    [s \in {ToString(n) : n \in 0..UsizeMax} |->
        CHOOSE n \in 0..UsizeMax : ToString(n) = s]
ParseUsize(s) == IF s \in DOMAIN UsizeOfToken THEN Some(UsizeOfToken[s]) ELSE None

\* a + 1 on usize: panics with overflow checks, wraps without.
\* Returns None for the panic.
WrapIncr(n) == (n + 1) % (UsizeMax + 1)
CheckedIncr(n, checks) ==
    IF n + 1 > UsizeMax
    THEN (IF checks THEN None ELSE Some(WrapIncr(n)))
    ELSE Some(n + 1)

(***************************************************************************)
(* Stream entry ids.                                                       *)
(***************************************************************************)
StreamEntryId(ts, sq) == [timestamp |-> ts, sequence_number |-> sq]
ZeroZero == StreamEntryId(0, 0)

\* impl Ord for StreamEntryId
IdLess(a, b) ==
    \/ a.timestamp < b.timestamp
    \/ a.timestamp = b.timestamp /\ a.sequence_number < b.sequence_number
IdLessEq(a, b) == IdLess(a, b) \/ a = b

\* impl Display for StreamEntryId
IdToString(id) == ToString(id.timestamp) \o "-" \o ToString(id.sequence_number)

Explicit(id) == [kind |-> "Explicit", timestamp |-> id.timestamp,
                 sequence_number |-> id.sequence_number]
AutoGenerateSequence(ts) == [kind |-> "AutoGenerateSequence", timestamp |-> ts,
                             sequence_number |-> 0]
AutoGenerate == [kind |-> "AutoGenerate", timestamp |-> 0, sequence_number |-> 0]

\* the id each token "<ts>-<seq>" of two usize numbers denotes
IdOfToken ==
    [s \in {IdToString(StreamEntryId(ts, sq)) : ts \in 0..UsizeMax, sq \in 0..UsizeMax} |->
        CHOOSE id \in {StreamEntryId(ts, sq) : ts \in 0..UsizeMax, sq \in 0..UsizeMax} :
            IdToString(id) = s]

\* parse_stream_entry_id: "<ts>-<seq>", None for "+", "-" and anything else
parse_stream_entry_id(arg) ==
    IF arg \in DOMAIN IdOfToken THEN Some(IdOfToken[arg]) ELSE None

\* the timestamp each token "<ts>-*" denotes
TimestampOfToken ==
    [s \in {ToString(ts) \o "-*" : ts \in 0..UsizeMax} |->
        CHOOSE ts \in 0..UsizeMax : ToString(ts) \o "-*" = s]

\* parse_requested_stream_entry_id: "*", "<ts>-*" or "<ts>-<seq>"
parse_requested_stream_entry_id(arg) ==
    IF arg = "*" THEN Some(AutoGenerate)
    ELSE IF arg \in DOMAIN TimestampOfToken
    THEN Some(AutoGenerateSequence(TimestampOfToken[arg]))
    ELSE IF arg \in DOMAIN IdOfToken THEN Some(Explicit(IdOfToken[arg]))
    ELSE None

(***************************************************************************)
(* IndexMap<String, String>: a sequence of <<key, value>> in insertion     *)
(* order; inserting a present key replaces its value in place.             *)
(***************************************************************************)
IndexMapInsert(m, k, v) ==
    IF \E i \in 1..Len(m) : m[i][1] = k
    THEN [i \in 1..Len(m) |-> IF m[i][1] = k THEN <<k, v>> ELSE m[i]]
    ELSE Append(m, <<k, v>>)

RECURSIVE IndexMapCollect(_, _)
IndexMapCollect(m, pairs) ==
    IF pairs = <<>> THEN m
    ELSE IndexMapCollect(IndexMapInsert(m, Head(pairs)[1], Head(pairs)[2]), Tail(pairs))

\* itertools tuple_windows::<(_, _)>: every two contiguous elements
TupleWindows(s) == [i \in 1..(IF Len(s) = 0 THEN 0 ELSE Len(s) - 1) |-> <<s[i], s[i + 1]>>]

\* command[3..] of process_xadd collected into the entry's map
XaddEntries(command) ==
    IndexMapCollect(<<>>, TupleWindows(SubSeq(command, 4, Len(command))))

(***************************************************************************)
(* Reply formatting (src/src/connection/fmt.rs).                           *)
(***************************************************************************)
CRLF == "\r\n"

\* format_string: a bulk string, or the null bulk for None
format_string(value) ==
    IF IsSome(value)
    THEN "$" \o ToString(Len(Unwrap(value))) \o CRLF \o Unwrap(value) \o CRLF
    ELSE "$-1" \o CRLF

RECURSIVE ConcatStrings(_)
ConcatStrings(ss) == IF ss = <<>> THEN "" ELSE Head(ss) \o ConcatStrings(Tail(ss))

\* format_array: "*<n>" and each value as a bulk string
format_array(values) ==
    "*" \o ToString(Len(values)) \o CRLF
        \o ConcatStrings([i \in 1..Len(values) |-> format_string(Some(values[i]))])

\* the entry's map flattened to k1, v1, k2, v2, ... in map order
FlattenValues(m) ==
    [i \in 1..(2 * Len(m)) |-> IF i % 2 = 1 THEN m[(i + 1) \div 2][1] ELSE m[i \div 2][2]]

\* format_stream_entry: [id, [k1, v1, ...]]
format_stream_entry(entry) ==
    "*2" \o CRLF \o format_string(Some(IdToString(entry.id)))
         \o format_array(FlattenValues(entry.values))

\* format_stream: the array of the formatted entries
format_stream(stream) ==
    "*" \o ToString(Len(stream)) \o CRLF
        \o ConcatStrings([i \in 1..Len(stream) |-> format_stream_entry(stream[i])])

(***************************************************************************)
(* The store (src/src/store/mod.rs, src/src/store/stream.rs).              *)
(***************************************************************************)
StringValue(s) == [tag |-> "String", str |-> s, stream |-> <<>>]
StreamValue(es) == [tag |-> "Stream", str |-> "", stream |-> es]
Item(value, expiry) == [value |-> value, expiry |-> expiry]
StreamEntry(id, values) == [id |-> id, values |-> values]

\* HashMap::get and HashMap::insert
StoreGet(st, key) == IF key \in DOMAIN st THEN Some(st[key]) ELSE None
StoreInsert(st, key, item) ==
    [k \in (DOMAIN st) \cup {key} |-> IF k = key THEN item ELSE st[k]]

\* usize::try_from(i64) on a 64-bit target: only a negative number fails
UsizeTryFrom(n) == IF n < 0 THEN None ELSE Some(n)
UnwrapOr(o, d) == IF IsSome(o) THEN Unwrap(o) ELSE d

\* ttl.and_then(|s| Utc::now().checked_add_signed(TimeDelta::milliseconds(s)))
ExpiryOf(ttl, now) == IF IsSome(ttl) THEN Some(now + Unwrap(ttl)) ELSE None

\* set_string had it left a stream stored at the key where it is
set_string_unless_stream(st, key, value, ttl, now) ==
    IF key \in DOMAIN st /\ st[key].value.tag = "Stream" THEN st
    ELSE StoreInsert(st, key, Item(StringValue(value), ExpiryOf(ttl, now)))

\* Store::set_string
set_string(st, key, value, ttl, now) ==
    StoreInsert(st, key, Item(StringValue(value), ExpiryOf(ttl, now)))

\* The comparison of get_string: the item is gone once expiry < Utc::now()
Expired(expiry, now) == IsSome(expiry) /\ Unwrap(expiry) < now

\* Store::get_string
get_string(st, key, now) ==
    LET item == StoreGet(st, key) IN
    IF ~IsSome(item) THEN None
    ELSE IF Expired(Unwrap(item).expiry, now) THEN None
    ELSE IF Unwrap(item).value.tag # "String" THEN None
    ELSE Some(Unwrap(item).value.str)

\* the decimal numbers INCR can meet here, and the number a token denotes
IncrMax == UsizeMax + MaxCmds + MaxQueue
DecimalOfToken ==
    [s \in {ToString(n) : n \in 0..IncrMax} |->
        CHOOSE n \in 0..IncrMax : ToString(n) = s]

\* Store::incr: 1 at an absent key, the number plus one at a string that is
\* a base-10 unsigned integer, None otherwise.  [st, value]
IncrOk(st, n) == [st |-> st, value |-> Some(n)]
IncrErr(st) == [st |-> st, value |-> None]
incr(st, key) ==
    IF key \notin DOMAIN st
    THEN IncrOk(StoreInsert(st, key, Item(StringValue("1"), None)), 1)
    ELSE IF st[key].value.tag = "String" /\ st[key].value.str \in DOMAIN DecimalOfToken
    THEN IncrOk([st EXCEPT ![key].value =
                     StringValue(ToString(DecimalOfToken[st[key].value.str] + 1))],
                DecimalOfToken[st[key].value.str] + 1)
    ELSE IncrErr(st)

\* Store::get_type (called get_item_type by the actor): the kind of the
\* item stored at the key; the expiry is not looked at.
get_item_type(st, key, now) ==
    LET item == StoreGet(st, key) IN
    IF ~IsSome(item) THEN None
    ELSE Some(Unwrap(item).value.tag)

AddOk(st, id) == [result |-> "Ok", id |-> id, err |-> "", store |-> st]
AddErr(st, err) == [result |-> "Err", id |-> ZeroZero, err |-> err, store |-> st]
AddPanic(st) == [result |-> "Panic", id |-> ZeroZero, err |-> "", store |-> st]
EqualOrSmallerID ==
    "ERR The ID specified in XADD is equal or smaller than the target stream top item"
GreaterThanZeroZero == "ERR The ID specified in XADD must be greater than 0-0"

\* Store::create_new_stream
create_new_stream(st, key, id_request, entry, expiry, now) ==
    LET id == IF id_request.kind = "Explicit"
              THEN StreamEntryId(id_request.timestamp, id_request.sequence_number)
              ELSE IF id_request.kind = "AutoGenerateSequence"
              THEN StreamEntryId(id_request.timestamp,
                                 IF id_request.timestamp = 0 THEN 1 ELSE 0)
              ELSE StreamEntryId(UnwrapOr(UsizeTryFrom(now), 0),
                                 IF now = 0 THEN 1 ELSE 0)
    IN  IF id_request.kind = "Explicit" /\ id = ZeroZero
        THEN AddErr(st, GreaterThanZeroZero)
        ELSE AddOk(StoreInsert(st, key,
                       Item(StreamValue(<<StreamEntry(id, entry)>>), expiry)), id)

\* The id append_to_existing_stream derives: [result, id, err]
AppendId(last_id, id_request, now, checks) ==
    LET next_seq == CheckedIncr(last_id.sequence_number, checks)
        req_id == StreamEntryId(id_request.timestamp, id_request.sequence_number)
        seq_id(ts) == IF IsSome(next_seq)
                      THEN [result |-> "Ok", id |-> StreamEntryId(ts, Unwrap(next_seq)), err |-> ""]
                      ELSE [result |-> "Panic", id |-> ZeroZero, err |-> ""]
        ok(id) == [result |-> "Ok", id |-> id, err |-> ""]
        err(e) == [result |-> "Err", id |-> ZeroZero, err |-> e]
    IN  IF id_request.kind = "Explicit"
        THEN IF req_id = ZeroZero THEN err(GreaterThanZeroZero)
             ELSE IF IdLessEq(req_id, last_id) THEN err(EqualOrSmallerID)
             ELSE ok(req_id)
        ELSE IF id_request.kind = "AutoGenerateSequence"
        THEN IF id_request.timestamp > last_id.timestamp
             THEN ok(StreamEntryId(id_request.timestamp, 0))
             ELSE IF id_request.timestamp = last_id.timestamp
             THEN seq_id(id_request.timestamp)
             ELSE err(EqualOrSmallerID)
        ELSE LET now_u == UnwrapOr(UsizeTryFrom(now), 0) IN
             IF now_u > last_id.timestamp THEN ok(StreamEntryId(now_u, 0))
             ELSE IF now_u = last_id.timestamp THEN seq_id(now_u)
             ELSE seq_id(last_id.timestamp)

\* the push that ends append_to_existing_stream, or its early return
AppendPush(st, key, entry, r) ==
    IF r.result = "Ok"
    THEN AddOk([st EXCEPT ![key].value.stream = Append(@, StreamEntry(r.id, entry))], r.id)
    ELSE IF r.result = "Err" THEN AddErr(st, r.err)
    ELSE AddPanic(st)

\* append_to_existing_stream, on the stream stored at key
append_to_existing_stream(st, key, id_request, entry, now, checks) ==
    AppendPush(st, key, entry,
               AppendId(st[key].value.stream[Len(st[key].value.stream)].id,
                        id_request, now, checks))

\* add_stream_entry had it begun a fresh stream whatever the key holds
add_stream_entry_fresh(st, key, id_request, entry, ttl, now, checks) ==
    create_new_stream(st, key, id_request, entry, ExpiryOf(ttl, now), now)

\* Store::add_stream_entry
add_stream_entry(st, key, id_request, entry, ttl, now, checks) ==
    LET item == StoreGet(st, key) IN
    IF IsSome(item) /\ Unwrap(item).value.tag = "Stream"
    THEN append_to_existing_stream(st, key, id_request, entry, now, checks)
    ELSE create_new_stream(st, key, id_request, entry, ExpiryOf(ttl, now), now)

\* Store::get_stream_range: the entries with start <= id <= end
\* get_stream_range had it left out the entry whose id is the end
get_stream_range_open(st, key, start, end) ==
    LET item == StoreGet(st, key) IN
    IF ~(IsSome(item) /\ Unwrap(item).value.tag = "Stream") THEN <<>>
    ELSE SelectSeq(Unwrap(item).value.stream,
            LAMBDA e : /\ (IsSome(start) => IdLessEq(Unwrap(start), e.id))
                       /\ (IsSome(end) => IdLess(e.id, Unwrap(end))))

get_stream_range(st, key, start, end) ==
    LET item == StoreGet(st, key) IN
    IF ~(IsSome(item) /\ Unwrap(item).value.tag = "Stream") THEN <<>>
    ELSE SelectSeq(Unwrap(item).value.stream,
            LAMBDA e : /\ (IsSome(start) => IdLessEq(Unwrap(start), e.id))
                       /\ (IsSome(end) => IdLessEq(e.id, Unwrap(end))))

(***************************************************************************)
(* The master actor (src/src/actor/master.rs).  Every handler is an        *)
(* operator from the actor's state S (a record of the variables, plus      *)
(* `dummy`, the messages waiting in process_exec's channel) to the state   *)
(* it leaves.  A handler does nothing once the actor has panicked or is    *)
(* parked.                                                                 *)
(***************************************************************************)
Running(S) == S.status = "running"

\* Sender::send(..).unwrap(): enqueue, or panic when the receiver is gone
Send(S, ch, msg) ==
    IF ~Running(S) THEN S
    ELSE IF ch = DummyClosed THEN [S EXCEPT !.status = "panicked"]
    ELSE IF ch = DummyOpen THEN [S EXCEPT !.dummy = Append(@, msg)]
    ELSE [S EXCEPT !.out[ch] = Append(@, msg)]

RECURSIVE SendAll(_, _, _)
SendAll(S, chs, msg) ==
    IF chs = <<>> THEN S ELSE SendAll(Send(S, Head(chs), msg), Tail(chs), msg)

RECURSIVE SumLen(_)
SumLen(command) == IF command = <<>> THEN 0 ELSE Len(Head(command)) + SumLen(Tail(command))

\* String::to_uppercase on the verbs clients send in lower case
Uppercase == [s \in {"set", "ping", "get", "incr", "replconf", "Echo"} |->
                 CASE s = "set" -> "SET" [] s = "ping" -> "PING" [] s = "get" -> "GET"
                   [] s = "incr" -> "INCR" [] s = "replconf" -> "REPLCONF"
                   [] s = "Echo" -> "ECHO"]
to_uppercase(s) == IF s \in DOMAIN Uppercase THEN Uppercase[s] ELSE s

\* CommandVerb::try_from of the first element of the argv
Verb(command) == to_uppercase(command[1])

(***************************************************************************)
(* The decoder (src/src/connection/parser.rs).  A buffer is the string of  *)
(* its bytes; pos is the index of the next byte the iterator yields.       *)
(***************************************************************************)
\* the verbs CommandVerb::try_from recognizes
CommandVerbs ==
    {"PING", "ECHO", "SET", "GET", "TYPE", "XADD", "XRANGE", "XREAD", "CONFIG", "KEYS",
     "INFO", "REPLCONF", "PSYNC", "WAIT", "INCR", "MULTI"}

BufString(word) == [kind |-> "String", cmd |-> <<word>>]
DBFile(bytes) == [kind |-> "DBFile", cmd |-> <<bytes>>]
Command(cmd) == [kind |-> "Command", cmd |-> cmd]

Min(a, b) == IF a <= b THEN a ELSE b

\* str::parse::<usize> on the decimal tokens of up to two digits
LengthOfToken ==
    [s \in {ToString(n) : n \in 0..99} |-> CHOOSE n \in 0..99 : ToString(n) = s]

\* the index of the first "\r\n" of buffer at or after i, 0 if there is none
RECURSIVE Delimiter(_, _)
Delimiter(buffer, i) ==
    IF i + 1 > Len(buffer) THEN 0
    ELSE IF SubSeq(buffer, i, i + 1) = CRLF THEN i
    ELSE Delimiter(buffer, i + 1)

\* find_until_next_delimiter: the bytes before the next "\r\n", which is
\* consumed; without one the iterator is exhausted and the last byte lost
find_until_next_delimiter(buffer, pos) ==
    LET d == Delimiter(buffer, pos) IN
    IF d # 0 THEN [bytes |-> SubSeq(buffer, pos, d - 1), pos |-> d + 2]
    ELSE [bytes |-> IF pos < Len(buffer) THEN SubSeq(buffer, pos, Len(buffer) - 1) ELSE "",
          pos |-> Len(buffer) + 1]

parse_simple_string(buffer, pos) ==
    LET h == find_until_next_delimiter(buffer, pos) IN
    [item |-> Some(BufString(h.bytes)), pos |-> h.pos]

\* parse_bulk_string_like had it taken the two bytes after every payload
parse_bulk_string_like_greedy(buffer, pos) ==
    LET h == find_until_next_delimiter(buffer, pos)
        stop == IF h.bytes \in DOMAIN LengthOfToken
                THEN Min(h.pos + LengthOfToken[h.bytes], Len(buffer) + 1) ELSE h.pos
        bytes == IF h.pos < stop THEN SubSeq(buffer, h.pos, stop - 1) ELSE ""
    IN  IF h.bytes \notin DOMAIN LengthOfToken THEN [item |-> None, pos |-> h.pos]
        ELSE [item |-> Some(BufString(bytes)), pos |-> Min(stop + 2, Len(buffer) + 1)]

\* parse_bulk_string_like: len bytes, then a bulk string if "\r\n" follows
\* (consumed), the snapshot if not (nothing consumed)
parse_bulk_string_like(buffer, pos) ==
    LET h == find_until_next_delimiter(buffer, pos)
        stop == IF h.bytes \in DOMAIN LengthOfToken
                THEN Min(h.pos + LengthOfToken[h.bytes], Len(buffer) + 1) ELSE h.pos
        bytes == IF h.pos < stop THEN SubSeq(buffer, h.pos, stop - 1) ELSE ""
    IN  IF h.bytes \notin DOMAIN LengthOfToken THEN [item |-> None, pos |-> h.pos]
        ELSE IF stop + 1 <= Len(buffer) /\ SubSeq(buffer, stop, stop + 1) = CRLF
        THEN [item |-> Some(BufString(bytes)), pos |-> stop + 2]
        ELSE [item |-> Some(DBFile(bytes)), pos |-> stop]

\* the loop of parse_array_into_command: n times, one byte is skipped and a
\* bulk string read; only strings are kept
RECURSIVE ArrayElements(_, _, _, _)
ArrayElements(buffer, pos, n, elements) ==
    IF n = 0 THEN [elements |-> elements, pos |-> pos]
    ELSE LET r == parse_bulk_string_like(buffer, Min(pos + 1, Len(buffer) + 1)) IN
         ArrayElements(buffer, r.pos, n - 1,
             IF IsSome(r.item) /\ Unwrap(r.item).kind = "String"
             THEN Append(elements, Unwrap(r.item).cmd[1]) ELSE elements)

\* parse_array_into_command had it kept the verb as try_from upper-cased it
parse_array_into_command_upper(buffer, pos) ==
    LET h == find_until_next_delimiter(buffer, pos) IN
    IF h.bytes \notin DOMAIN LengthOfToken THEN [item |-> None, pos |-> h.pos]
    ELSE LET a == ArrayElements(buffer, h.pos, LengthOfToken[h.bytes], <<>>)
             first == IF a.elements = <<>> THEN "" ELSE a.elements[1]
         IN  [item |-> IF to_uppercase(first) \in CommandVerbs
                       THEN Some(Command([a.elements EXCEPT ![1] = to_uppercase(first)]))
                       ELSE None,
              pos |-> a.pos]

parse_array_into_command(buffer, pos) ==
    LET h == find_until_next_delimiter(buffer, pos) IN
    IF h.bytes \notin DOMAIN LengthOfToken THEN [item |-> None, pos |-> h.pos]
    ELSE LET a == ArrayElements(buffer, h.pos, LengthOfToken[h.bytes], <<>>)
             first == IF a.elements = <<>> THEN "" ELSE a.elements[1]
         IN  [item |-> IF to_uppercase(first) \in CommandVerbs
                       THEN Some(Command(a.elements)) ELSE None,
              pos |-> a.pos]

\* the loop of parse_buffer from pos on, elements being what was pushed
RECURSIVE ParseFrom(_, _, _)
ParseFrom(buffer, pos, elements) ==
    IF pos > Len(buffer) THEN [elements |-> elements, panicked |-> FALSE]
    ELSE LET byte == SubSeq(buffer, pos, pos) IN
         IF byte \notin {"+", "$", "*"} THEN [elements |-> <<>>, panicked |-> TRUE]
         ELSE LET r == CASE byte = "+" -> parse_simple_string(buffer, pos + 1)
                         [] byte = "$" -> parse_bulk_string_like(buffer, pos + 1)
                         [] byte = "*" -> parse_array_into_command(buffer, pos + 1)
              IN  ParseFrom(buffer, r.pos,
                      IF IsSome(r.item) THEN Append(elements, Unwrap(r.item)) ELSE elements)

\* parse_buffer: Some(elements), or the panic of its last arm
parse_buffer(buffer) == ParseFrom(buffer, 1, <<>>)

process_ping(S, tx_back) == Send(S, tx_back, SendString("+PONG" \o CRLF))

process_echo(S, command, tx_back) ==
    IF Len(command) < 2 THEN S
    ELSE Send(S, tx_back, SendString(format_string(Some(command[2]))))

\* the ttl process_set reads from "px <ms>"
SetTtl(command) ==
    LET option_value == IF Len(command) >= 5 THEN ParseUsize(command[5]) ELSE None IN
    IF Len(command) >= 4 /\ IsSome(option_value) /\ command[4] = "px"
    THEN option_value ELSE None

\* propagate_set had it counted the bytes of the encoded array
propagate_set_encoded(S, command) ==
    IF ~Running(S) THEN S
    ELSE SendAll([S EXCEPT !.replication_offset = @ + Len(format_array(command))],
                 S.replicas, SendString(format_array(command)))

\* the end of process_set: the offset grows and the replicas get the argv
propagate_set(S, command) ==
    IF ~Running(S) THEN S
    ELSE SendAll([S EXCEPT !.replication_offset = @ + SumLen(command)],
                 S.replicas, SendString(format_array(command)))

process_set(S, command, tx_back) ==
    IF Len(command) < 3 THEN S
    ELSE propagate_set(
             Send([S EXCEPT !.store = set_string(@, command[2], command[3],
                                                 SetTtl(command), S.utc_now),
                            !.written = @ \cup {command[2]}],
                  tx_back, SendString("+OK" \o CRLF)),
             command)

process_get(S, command, tx_back) ==
    IF Len(command) < 2 THEN S
    ELSE Send(S, tx_back,
              SendString(format_string(get_string(S.store, command[2], S.utc_now))))

\* the reply of process_incr once Store::incr returned r
incr_reply(S, key, tx_back, r) ==
    Send([S EXCEPT !.store = r.st,
                   !.written = IF IsSome(r.value) THEN @ \cup {key} ELSE @], tx_back,
         IF IsSome(r.value)
         THEN SendString(":" \o ToString(Unwrap(r.value)) \o CRLF)
         ELSE SendString("-ERR value is not an integer or out of range" \o CRLF))

process_incr(S, command, tx_back) ==
    IF Len(command) < 2 THEN S
    ELSE incr_reply(S, command[2], tx_back, incr(S.store, command[2]))

process_type(S, command, tx_back) ==
    IF Len(command) < 2 THEN S
    ELSE LET t == get_item_type(S.store, command[2], S.utc_now)
             response == IF ~IsSome(t) THEN "+none" \o CRLF
                         ELSE IF Unwrap(t) = "String" THEN "+string" \o CRLF
                         ELSE "+stream" \o CRLF
         IN  Send(S, tx_back, SendString(response))

\* what a watching BlockingXREAD is sent for the new entry
XaddNotification(stream_key, entry_id, entries) ==
    "*1" \o CRLF \o "*2" \o CRLF \o format_string(Some(stream_key))
         \o format_stream(<<StreamEntry(entry_id, entries)>>)

RECURSIVE propagate_xadd_from(_, _, _)
propagate_xadd_from(S, tasks, msg_key) ==
    IF tasks = <<>> THEN S
    ELSE propagate_xadd_from(
             IF \E i \in 1..Len(Head(tasks).streams) : Head(tasks).streams[i] = msg_key[2]
             THEN Send(S, Head(tasks).initial_client_tx, SendString(msg_key[1]))
             ELSE S,
             Tail(tasks), msg_key)

propagate_xadd(S, stream_key, entry_id, entries) ==
    propagate_xadd_from(S, S.blocking_xreads,
                        <<XaddNotification(stream_key, entry_id, entries), stream_key>>)

\* process_xadd once add_stream_entry returned r
xadd_reply(S, stream_key, entries, tx_back, r) ==
    IF r.result = "Panic" THEN [S EXCEPT !.status = "panicked"]
    ELSE IF r.result = "Err"
    THEN Send(S, tx_back, SendString("-" \o r.err \o CRLF))
    ELSE propagate_xadd(
             Send([S EXCEPT !.store = r.store, !.written = @ \cup {stream_key}],
                  tx_back, SendString(format_string(Some(IdToString(r.id))))),
             stream_key, r.id, entries)

\* process_xadd once the id argument is parsed
xadd_entry(S, command, tx_back, entry_id, entries) ==
    IF ~IsSome(entry_id) THEN S
    ELSE xadd_reply(S, command[2], entries, tx_back,
                    add_stream_entry(S.store, command[2], Unwrap(entry_id), entries,
                                     None, S.utc_now, S.overflow_checks))

process_xadd(S, command, tx_back) ==
    IF Len(command) < 3 THEN S
    ELSE xadd_entry(S, command, tx_back, parse_requested_stream_entry_id(command[3]),
                    XaddEntries(command))

process_xrange(S, command, tx_back) ==
    IF Len(command) < 2 THEN S
    ELSE LET start_id == IF Len(command) >= 3 THEN parse_stream_entry_id(command[3]) ELSE None
             end_id == IF Len(command) >= 4 THEN parse_stream_entry_id(command[4]) ELSE None
         IN  Send(S, tx_back, SendString(format_stream(
                     get_stream_range(S.store, command[2], start_id, end_id))))

\* parse_xread_arguments: None, or [block_for, streams: <<name, Option id>>..]
parse_xread_arguments(cmd) ==
    IF Len(cmd) < 2 THEN None
    ELSE LET blocking == cmd[2] = "block"
             timeout == IF blocking /\ Len(cmd) >= 3 THEN ParseUsize(cmd[3]) ELSE None
             at == IF blocking THEN 4 ELSE 2
         IN  IF Len(cmd) < at THEN None
             ELSE IF cmd[at] # "streams" THEN None
             ELSE LET rest == SubSeq(cmd, at + 1, Len(cmd))
                      midpoint == Len(rest) \div 2
                  IN  Some([block_for |-> timeout,
                            streams |-> [i \in 1..midpoint |->
                                <<rest[i], parse_stream_entry_id(rest[midpoint + i])>>]])

BlockingXREAD(tx, streams, timeout) ==
    [initial_client_tx |-> tx, streams |-> streams, timeout |-> timeout]

\* process_xread once its arguments are parsed
xread_args(S, tx_back, args) ==
    IF ~IsSome(args) THEN S
    ELSE LET streams == Unwrap(args).streams
             block_for == Unwrap(args).block_for
             message == "*" \o ToString(Len(streams)) \o CRLF \o
                 ConcatStrings([i \in 1..Len(streams) |->
                     "*2" \o CRLF \o format_string(Some(streams[i][1])) \o
                     format_stream(get_stream_range(S.store, streams[i][1],
                                                    streams[i][2], None))])
         IN  IF IsSome(block_for)
             THEN [S EXCEPT !.blocking_xreads = Append(@,
                      BlockingXREAD(tx_back, [i \in 1..Len(streams) |-> streams[i][1]],
                          IF Unwrap(block_for) > 0
                          THEN Some(S.instant + Unwrap(block_for)) ELSE None))]
             ELSE Send(S, tx_back, SendString(message))

process_xread(S, command, tx_back) ==
    xread_args(S, tx_back, parse_xread_arguments(command))

\* Config.args: the options given on the command line
ConfigArgs == [dir |-> "/tmp"]

process_config(S, command, tx_back) ==
    IF Len(command) < 3 THEN S
    ELSE IF command[2] # "GET" THEN S
    ELSE IF command[3] \notin DOMAIN ConfigArgs THEN S
    ELSE Send(S, tx_back, SendString(
             "*2" \o CRLF \o "$" \o ToString(Len(command[3])) \o CRLF \o command[3] \o CRLF
                 \o "$" \o ToString(Len(ConfigArgs[command[3]])) \o CRLF
                 \o ConfigArgs[command[3]] \o CRLF))

Replid == "8371b4fb1155b71f4a04d3e1bc3e18c4a990aeeb"
\* the bytes of empty.rdb, whatever they are
EmptyRdb == "REDIS0011"

process_info(S, command, tx_back) ==
    IF Len(command) >= 2 /\ command[2] = "replication"
    THEN Send(S, tx_back, SendString(format_string(Some(
             "role:master" \o CRLF \o "master_replid:" \o Replid \o CRLF \o
             "master_repl_offset:0" \o CRLF))))
    ELSE [S EXCEPT !.status = "panicked"]

process_replconf(S, command, tx_back) ==
    IF Len(command) >= 2 /\ command[2] = "ACK"
    THEN IF IsSome(S.wait_for_replication_acks)
         THEN [S EXCEPT !.wait_for_replication_acks[1].number_of_acks = @ + 1]
         ELSE S
    ELSE Send(S, tx_back, SendString("+OK" \o CRLF))

process_psync(S, tx_back) ==
    LET S1 == Send(S, tx_back, SendString(format_string(Some(
                  "+FULLRESYNC " \o Replid \o " 0"))))
    IN  IF ~S.rdb_readable THEN S1
        ELSE LET S2 == Send(Send(S1, tx_back,
                                 SendString("$" \o ToString(Len(EmptyRdb)) \o CRLF)),
                            tx_back, SendBytes(EmptyRdb))
             IN  IF Running(S2) THEN [S2 EXCEPT !.replicas = Append(@, tx_back)] ELSE S2

\* WaitForReplicationAcks had a new record started with one ACK counted
WaitForReplicationAcksCounted(tx, expected, timeout) ==
    [initial_client_tx |-> tx, expected_number_of_acks |-> expected,
     number_of_acks |-> 1, timeout |-> timeout]

WaitForReplicationAcks(tx, expected, timeout) ==
    [initial_client_tx |-> tx, expected_number_of_acks |-> expected,
     number_of_acks |-> 0, timeout |-> timeout]

GetAck == <<"REPLCONF", "GETACK", "*">>

\* str::parse::<u64> of the timeout of WAIT
U64OfToken ==
    [s \in DOMAIN UsizeOfToken \cup {"1000"} |->
        IF s = "1000" THEN 1000 ELSE UsizeOfToken[s]]
ParseU64(s) == IF s \in DOMAIN U64OfToken THEN Some(U64OfToken[s]) ELSE None

\* process_wait had it asked the replicas whenever n > 0
process_wait_always_asks(S, command, tx_back) ==
    LET expected == IF Len(command) >= 2 THEN ParseUsize(command[2]) ELSE None IN
    IF ~IsSome(expected) THEN S
    ELSE IF Unwrap(expected) = 0 THEN Send(S, tx_back, SendString(":0" \o CRLF))
    ELSE LET S1 == SendAll(S, S.replicas, SendString(format_array(GetAck)))
             ms == IF Len(command) >= 3 THEN ParseU64(command[3]) ELSE None
             timeout == IF IsSome(ms) THEN Some(S.instant + Unwrap(ms)) ELSE None
         IN  IF Running(S1)
             THEN [S1 EXCEPT !.wait_for_replication_acks =
                       Some(WaitForReplicationAcks(tx_back, Unwrap(expected), timeout))]
             ELSE S1

process_wait(S, command, tx_back) ==
    LET expected == IF Len(command) >= 2 THEN ParseUsize(command[2]) ELSE None IN
    IF ~IsSome(expected) THEN S
    ELSE IF Unwrap(expected) = 0 THEN Send(S, tx_back, SendString(":0" \o CRLF))
    ELSE IF S.last_offset_checked = S.replication_offset
    THEN Send(S, tx_back, SendString(":" \o ToString(Len(S.replicas)) \o CRLF))
    ELSE LET S1 == SendAll(S, S.replicas, SendString(format_array(GetAck)))
             ms == IF Len(command) >= 3 THEN ParseU64(command[3]) ELSE None
             timeout == IF IsSome(ms) THEN Some(S.instant + Unwrap(ms)) ELSE None
         IN  IF Running(S1)
             THEN [S1 EXCEPT !.wait_for_replication_acks =
                       Some(WaitForReplicationAcks(tx_back, Unwrap(expected), timeout))]
             ELSE S1

Transaction(tx, commands) == [client_tx |-> tx, commands |-> commands]

process_multi(S, command, tx_back, connection_id) ==
    Send([S EXCEPT !.transactions[connection_id] = Some(Transaction(tx_back, <<>>))],
         tx_back, SendString("+OK" \o CRLF))

\* the match of process_simple_command on the verb
simple_command(S, verb, command, tx_back, connection_id) ==
    IF ~Running(S) THEN S
    ELSE CASE verb = "PING" -> process_ping(S, tx_back)
           [] verb = "ECHO" -> process_echo(S, command, tx_back)
           [] verb = "SET" -> process_set(S, command, tx_back)
           [] verb = "GET" -> process_get(S, command, tx_back)
           [] verb = "INCR" -> process_incr(S, command, tx_back)
           [] verb = "MULTI" -> process_multi(S, command, tx_back, connection_id)
           [] verb = "DISCARD" ->
                  Send(S, tx_back, SendString("-ERR DISCARD without MULTI" \o CRLF))
           [] verb = "EXEC" ->
                  Send(S, tx_back, SendString("-ERR EXEC without MULTI" \o CRLF))
           [] verb = "TYPE" -> process_type(S, command, tx_back)
           [] verb = "XADD" -> process_xadd(S, command, tx_back)
           [] verb = "XRANGE" -> process_xrange(S, command, tx_back)
           [] verb = "XREAD" -> process_xread(S, command, tx_back)
           [] verb = "CONFIG" -> process_config(S, command, tx_back)
           [] verb = "INFO" -> process_info(S, command, tx_back)
           [] verb = "REPLCONF" -> process_replconf(S, command, tx_back)
           [] verb = "PSYNC" -> process_psync(S, tx_back)
           [] verb = "WAIT" -> process_wait(S, command, tx_back)

process_simple_command(S, command, tx_back, connection_id) ==
    simple_command(S, Verb(command), command, tx_back, connection_id)

\* process_exec's loop over the queued commands: each is run with the dummy
\* channel as its reply channel, then one message is received from it.
\* outcome: "done" (all run), "return" (a message that is no SendString made
\* process_exec return), "stuck" (panicked, or parked in recv forever).
RECURSIVE ExecLoop(_, _, _, _)
\* dummy_rx.recv() after a command left the actor in S1
ExecRecv(S1, commands, message, connection_id) ==
    IF ~Running(S1) THEN [S |-> S1, message |-> message, outcome |-> "stuck"]
    ELSE IF S1.dummy = <<>>
    THEN [S |-> [S1 EXCEPT !.status = "blocked"], message |-> message,
          outcome |-> "stuck"]
    ELSE IF Head(S1.dummy).t # "SendString"
    THEN [S |-> [S1 EXCEPT !.dummy = Tail(@)], message |-> message,
          outcome |-> "return"]
    ELSE ExecLoop([S1 EXCEPT !.dummy = Tail(@)], Tail(commands),
                  message \o Head(S1.dummy).v, connection_id)

ExecLoop(S, commands, message, connection_id) ==
    IF commands = <<>> THEN [S |-> S, message |-> message, outcome |-> "done"]
    ELSE ExecRecv(process_simple_command(S, Head(commands), DummyOpen, connection_id),
                  commands, message, connection_id)

\* process_exec returns: dummy_rx is dropped, so every clone of dummy_tx the
\* commands stored now is a sender without receiver.
Dropped(ch) == IF ch = DummyOpen THEN DummyClosed ELSE ch
CloseDummy(S) ==
    [S EXCEPT
        !.dummy = <<>>,
        !.replicas = [i \in 1..Len(@) |-> Dropped(@[i])],
        !.blocking_xreads = [i \in 1..Len(@) |->
            [@[i] EXCEPT !.initial_client_tx = Dropped(@)]],
        !.wait_for_replication_acks =
            IF IsSome(@) THEN Some([Unwrap(@) EXCEPT !.initial_client_tx = Dropped(@)])
            ELSE @,
        !.transactions = [c \in DOMAIN @ |->
            IF IsSome(@[c]) THEN Some([Unwrap(@[c]) EXCEPT !.client_tx = Dropped(@)])
            ELSE @[c]]]

\* the end of process_exec: the array is sent and the transaction removed
ExecRemove(S, connection_id) ==
    IF Running(S) THEN CloseDummy([S EXCEPT !.transactions[connection_id] = None])
    ELSE S

\* process_exec once its loop ended with r
ExecReply(r, transaction, connection_id) ==
    IF r.outcome = "stuck" THEN r.S
    ELSE IF r.outcome = "return" THEN CloseDummy(r.S)
    ELSE ExecRemove(Send(r.S, transaction.client_tx, SendString(r.message)),
                    connection_id)

\* process_exec had it skipped the first queued command
process_exec_skipping(S, transaction, connection_id) ==
    ExecReply(ExecLoop([S EXCEPT !.dummy = <<>>],
                       IF transaction.commands = <<>> THEN <<>> ELSE Tail(transaction.commands),
                       "*" \o ToString(Len(transaction.commands)) \o CRLF,
                       connection_id),
              transaction, connection_id)

process_exec(S, transaction, connection_id) ==
    ExecReply(ExecLoop([S EXCEPT !.dummy = <<>>], transaction.commands,
                       "*" \o ToString(Len(transaction.commands)) \o CRLF,
                       connection_id),
              transaction, connection_id)

\* QueueCommand had it put the transaction back without the command
QueueCommandDropped(S, transaction, command, connection_id) ==
    IF Running(S)
    THEN [S EXCEPT !.transactions[connection_id] = Some(transaction)]
    ELSE S

\* the command is pushed on the transaction, which is put back in the map
QueueCommand(S, transaction, command, connection_id) ==
    IF Running(S)
    THEN [S EXCEPT !.transactions[connection_id] =
              Some(Transaction(transaction.client_tx,
                               Append(transaction.commands, command)))]
    ELSE S

\* process_in_transaction had DISCARD run the queue as EXEC does
process_in_transaction_flush(S0, transaction, command, tx_back, connection_id) ==
    IF Verb(command) \in {"EXEC", "DISCARD"}
    THEN process_exec(S0, transaction, connection_id)
    ELSE QueueCommand(Send(S0, tx_back, SendString("+QUEUED" \o CRLF)),
                      transaction, command, connection_id)

\* process_command when swap_remove found a transaction; S0 is without it
process_in_transaction(S0, transaction, command, tx_back, connection_id) ==
    IF Verb(command) = "EXEC" THEN process_exec(S0, transaction, connection_id)
    ELSE IF Verb(command) = "DISCARD"
    THEN Send(S0, tx_back, SendString("+OK" \o CRLF))
    ELSE QueueCommand(Send(S0, tx_back, SendString("+QUEUED" \o CRLF)),
                      transaction, command, connection_id)

process_command(S, command, tx_back, connection_id) ==
    IF ~Running(S) THEN S
    ELSE IF IsSome(S.transactions[connection_id])
    THEN process_in_transaction([S EXCEPT !.transactions[connection_id] = None],
                                Unwrap(S.transactions[connection_id]),
                                command, tx_back, connection_id)
    ELSE process_simple_command(S, command, tx_back, connection_id)

check_on_replication_waits(S) ==
    IF ~Running(S) \/ ~IsSome(S.wait_for_replication_acks) THEN S
    ELSE LET task == Unwrap(S.wait_for_replication_acks)
             reply == Send(S, task.initial_client_tx,
                           SendString(":" \o ToString(task.number_of_acks) \o CRLF))
             resolved == IF Running(reply)
                         THEN [reply EXCEPT !.last_offset_checked = S.replication_offset,
                                            !.wait_for_replication_acks = None]
                         ELSE reply
         IN  IF IsSome(task.timeout) /\ Unwrap(task.timeout) <= S.instant THEN resolved
             ELSE IF task.number_of_acks >= task.expected_number_of_acks THEN resolved
             ELSE S

RECURSIVE RetainXreads(_, _, _)
RetainXreads(S, tasks, kept) ==
    IF tasks = <<>> THEN [S EXCEPT !.blocking_xreads = kept]
    ELSE IF ~Running(S) THEN S
    ELSE IF IsSome(Head(tasks).timeout) /\ Unwrap(Head(tasks).timeout) <= S.instant
    THEN RetainXreads(Send(S, Head(tasks).initial_client_tx, SendString("$-1" \o CRLF)),
                      Tail(tasks), kept)
    ELSE RetainXreads(S, Tail(tasks), Append(kept, Head(tasks)))

\* check_on_blocking_xreads had it compared timeout < Instant::now()
check_on_blocking_xreads_strict(S) ==
    IF ~Running(S) THEN S
    ELSE LET due == SelectSeq(S.blocking_xreads,
                        LAMBDA t : IsSome(t.timeout) /\ Unwrap(t.timeout) < S.instant)
         IN  [SendAll(S, [i \in 1..Len(due) |-> due[i].initial_client_tx],
                      SendString("$-1" \o CRLF))
                 EXCEPT !.blocking_xreads =
                     SelectSeq(S.blocking_xreads,
                         LAMBDA t : ~(IsSome(t.timeout) /\ Unwrap(t.timeout) < S.instant))]

check_on_blocking_xreads(S) ==
    IF ~Running(S) THEN S ELSE RetainXreads(S, S.blocking_xreads, <<>>)

NewBuffer(value, tx_back, connection_id) ==
    [value |-> value, tx_back |-> tx_back, connection_id |-> connection_id]

\* the while loop of MasterActor::poll: [S, rx] when it ends or the actor stops
RECURSIVE Drain(_, _)
Drain(S, queue) ==
    IF queue = <<>> \/ ~Running(S) THEN [S |-> S, rx |-> queue]
    ELSE IF Head(queue).value.kind # "Command"
    THEN [S |-> [S EXCEPT !.status = "panicked"], rx |-> Tail(queue)]
    ELSE Drain(process_command(S, Head(queue).value.cmd, Head(queue).tx_back,
                               Head(queue).connection_id),
               Tail(queue))

\* the deadline checks that end MasterActor::poll
PollChecks(d) ==
    [S |-> check_on_blocking_xreads(check_on_replication_waits(d.S)), rx |-> d.rx]

\* MasterActor::poll had it left its queue alone while a request is deferred
poll_parked(S, queue) ==
    IF IsSome(S.wait_for_replication_acks) \/ S.blocking_xreads # <<>>
    THEN PollChecks([S |-> S, rx |-> queue])
    ELSE PollChecks(Drain(S, queue))

\* MasterActor::poll
poll(S, queue) == PollChecks(Drain(S, queue))

(***************************************************************************)
(* The replica actor (src/src/actor/stores/replica.rs).  R is the record   *)
(* of its fields; to_master and to_client are what it has enqueued on the  *)
(* reply channels of the master link and of its local client.              *)
(***************************************************************************)
\* ReplicaActor::new
ReplicaNew ==
    [store |-> <<>>, replication_offset |-> 0, rx_master |-> <<>>, rx_clients |-> <<>>,
     to_master |-> <<>>, to_client |-> <<>>, status |-> "running"]

ReplicaSend(R, tx_back, msg) ==
    IF R.status # "running" THEN R
    ELSE IF tx_back = "to_master" THEN [R EXCEPT !.to_master = Append(@, msg)]
    ELSE [R EXCEPT !.to_client = Append(@, msg)]

replica_process_echo(R, command, tx_back) ==
    IF Len(command) < 2 THEN R
    ELSE ReplicaSend(R, tx_back, SendString(format_string(Some(command[2]))))

replica_process_set(R, command, now) ==
    IF Len(command) < 3 THEN R
    ELSE [R EXCEPT !.store = set_string(@, command[2], command[3], SetTtl(command), now)]

replica_process_get(R, command, tx_back, now) ==
    IF Len(command) < 2 THEN R
    ELSE ReplicaSend(R, tx_back,
                     SendString(format_string(get_string(R.store, command[2], now))))

replica_process_config(R, command, tx_back) ==
    IF Len(command) < 3 THEN R
    ELSE IF command[2] # "GET" THEN R
    ELSE IF command[3] \notin DOMAIN ConfigArgs THEN R
    ELSE ReplicaSend(R, tx_back, SendString(
             "*2" \o CRLF \o "$" \o ToString(Len(command[3])) \o CRLF \o command[3] \o CRLF
                 \o "$" \o ToString(Len(ConfigArgs[command[3]])) \o CRLF
                 \o ConfigArgs[command[3]] \o CRLF))

replica_process_info(R, command, tx_back) ==
    IF Len(command) >= 2 /\ command[2] = "replication"
    THEN ReplicaSend(R, tx_back, SendString(format_string(Some(
             "role:slave" \o CRLF \o "master_replid:" \o Replid \o CRLF \o
             "master_repl_offset:0" \o CRLF))))
    ELSE [R EXCEPT !.status = "panicked"]

replica_process_replconf(R, command, tx_back) ==
    IF Len(command) >= 2 /\ command[2] = "GETACK"
    THEN ReplicaSend(R, tx_back, SendString(format_array(
             <<"REPLCONF", "ACK", ToString(R.replication_offset)>>)))
    ELSE ReplicaSend(R, tx_back, SendString("+OK" \o CRLF))

\* ReplicaActor::process_command; a verb without handler is logged only
replica_process_command(R, command, tx_back, now) ==
    IF R.status # "running" THEN R
    ELSE CASE Verb(command) = "ECHO" -> replica_process_echo(R, command, tx_back)
           [] Verb(command) = "SET" -> replica_process_set(R, command, now)
           [] Verb(command) = "GET" -> replica_process_get(R, command, tx_back, now)
           [] Verb(command) = "CONFIG" -> replica_process_config(R, command, tx_back)
           [] Verb(command) = "INFO" -> replica_process_info(R, command, tx_back)
           [] Verb(command) = "REPLCONF" -> replica_process_replconf(R, command, tx_back)
           [] OTHER -> R

\* ReplicaActor::track_replication_offset: the first element of the argv is
\* compared as the master sent it
track_replication_offset(R, cmd) ==
    IF R.status = "running" /\ cmd # <<>> /\ cmd[1] \in {"PING", "SET", "REPLCONF"}
    THEN [R EXCEPT !.replication_offset = @ + Len(format_array(cmd))]
    ELSE R

\* the first loop of ReplicaActor::poll: a buffer that is no command is skipped
RECURSIVE DrainMaster(_, _, _)
DrainMaster(R, queue, now) ==
    IF queue = <<>> \/ R.status # "running" THEN [R EXCEPT !.rx_master = queue]
    ELSE IF Head(queue).kind # "Command" THEN DrainMaster(R, Tail(queue), now)
    ELSE DrainMaster(
             track_replication_offset(
                 replica_process_command(R, Head(queue).cmd, "to_master", now),
                 Head(queue).cmd),
             Tail(queue), now)

\* the second loop of ReplicaActor::poll
RECURSIVE DrainClients(_, _, _)
DrainClients(R, queue, now) ==
    IF queue = <<>> \/ R.status # "running" THEN [R EXCEPT !.rx_clients = queue]
    ELSE IF Head(queue).kind # "Command"
    THEN [R EXCEPT !.status = "panicked", !.rx_clients = Tail(queue)]
    ELSE DrainClients(replica_process_command(R, Head(queue).cmd, "to_client", now),
                      Tail(queue), now)

\* ReplicaActor::poll
replica_poll(R, now) == DrainClients(DrainMaster(R, R.rx_master, now), R.rx_clients, now)

(***************************************************************************)
(* The state machine.                                                      *)
(***************************************************************************)
Cur ==
    [store |-> store, replication_offset |-> replication_offset,
     last_offset_checked |-> last_offset_checked, replicas |-> replicas,
     wait_for_replication_acks |-> wait_for_replication_acks,
     blocking_xreads |-> blocking_xreads, transactions |-> transactions,
     out |-> out, dummy |-> <<>>, status |-> status, utc_now |-> utc_now,
     instant |-> instant, rdb_readable |-> rdb_readable,
     overflow_checks |-> overflow_checks, written |-> written]

\* MasterActor::new, and an empty Store
Init ==
    /\ store = <<>>
    /\ replication_offset = 0
    /\ last_offset_checked = 0
    /\ replicas = <<>>
    /\ wait_for_replication_acks = None
    /\ blocking_xreads = <<>>
    /\ transactions = [c \in Conns |-> None]
    /\ rx = <<>>
    /\ out = [c \in Conns |-> <<>>]
    /\ status = "running"
    /\ utc_now \in 0..MaxClock
    /\ instant = 0
    /\ rdb_readable \in BOOLEAN
    /\ overflow_checks \in BOOLEAN
    /\ written = {}
    /\ ncmds = 0
    /\ replica = ReplicaNew
    /\ delivered = 0
    /\ wire = <<>>
    /\ decoded = [elements |-> <<>>, panicked |-> FALSE]
    /\ closed = {}
    /\ handshake = [pc |-> 0, sent |-> <<>>, got |-> 0]

\* Connection::poll: a command read from the socket is forwarded to the actor
ConnectionPoll(c, cmd) ==
    /\ status = "running"
    /\ ncmds < MaxCmds
    /\ Len(rx) < MaxQueue
    /\ rx' = Append(rx, NewBuffer(Command(cmd), c, c))
    /\ ncmds' = ncmds + 1
    /\ UNCHANGED <<store, replication_offset, last_offset_checked, replicas,
                   wait_for_replication_acks, blocking_xreads, transactions, out,
                   status, utc_now, instant, rdb_readable, overflow_checks, written,
                   replica, delivered, wire, decoded, closed, handshake>>

\* the actor's variables take the values poll left in r
Becomes(r) ==
    /\ store' = r.S.store
    /\ replication_offset' = r.S.replication_offset
    /\ last_offset_checked' = r.S.last_offset_checked
    /\ replicas' = r.S.replicas
    /\ wait_for_replication_acks' = r.S.wait_for_replication_acks
    /\ blocking_xreads' = r.S.blocking_xreads
    /\ transactions' = r.S.transactions
    /\ out' = r.S.out
    /\ status' = r.S.status
    /\ written' = r.S.written
    /\ rx' = r.rx

\* MasterActor::poll: the queue is drained, then the deadlines are checked
ActorPoll ==
    /\ status = "running"
    /\ Becomes(poll(Cur, rx))
    /\ UNCHANGED <<utc_now, instant, rdb_readable, overflow_checks, ncmds,
                   replica, delivered, wire, decoded, closed, handshake>>

\* the wall clock moves, forwards or backwards
UtcChange(t) ==
    /\ t # utc_now
    /\ utc_now' = t
    /\ UNCHANGED <<store, replication_offset, last_offset_checked, replicas,
                   wait_for_replication_acks, blocking_xreads, transactions, rx, out,
                   status, instant, rdb_readable, overflow_checks, written, ncmds,
                   replica, delivered, wire, decoded, closed, handshake>>

\* the monotonic clock advances
InstantAdvance ==
    /\ instant < MaxClock
    /\ instant' = instant + 1
    /\ UNCHANGED <<store, replication_offset, last_offset_checked, replicas,
                   wait_for_replication_acks, blocking_xreads, transactions, rx, out,
                   status, utc_now, rdb_readable, overflow_checks, written, ncmds,
                   replica, delivered, wire, decoded, closed, handshake>>

(***************************************************************************)
(* Runs over streams and strings: one client, XADD with every id form,     *)
(* SET on the same key, a wall clock that moves both ways.                 *)
(***************************************************************************)
ExplicitSeqs == {0, 1, UsizeMax}
XaddIds ==
    {IdToString(StreamEntryId(ts, sq)) : ts \in 0..MaxTs, sq \in ExplicitSeqs}
        \cup {ToString(ts) \o "-*" : ts \in 0..MaxTs} \cup {"*"}
StoreCmds ==
    {<<"XADD", "k1", id, "a", "1">> : id \in XaddIds}
        \cup {<<"XADD", "k1", "*", "a", "1", "b", "2">>, <<"SET", "k1", "v1">>}

StoreNext ==
    \/ \E cmd \in StoreCmds : ConnectionPoll("c1", cmd)
    \/ ActorPoll
    \/ \E t \in 0..MaxClock : UtcChange(t)

\* the store starts empty; PSYNC is not among the commands of these runs
StoreInit == Init /\ rdb_readable = TRUE

Spec == StoreInit /\ [][StoreNext]_vars

(***************************************************************************)
(* Runs over the two kinds of value of one key: explicit and generated     *)
(* ids, accepted and refused, and SET, at every start of the wall clock.   *)
(***************************************************************************)
KindIds == {"0-0", "0-1", "1-1", "1-*", "*"}
KindCmds ==
    {<<"XADD", "k1", id, "a", "1">> : id \in KindIds} \cup {<<"SET", "k1", "v1">>}

KindNext ==
    \/ \E cmd \in KindCmds : ConnectionPoll("c1", cmd)
    \/ ActorPoll

SpecKinds == StoreInit /\ [][KindNext]_vars

(***************************************************************************)
(* What a command sent now would do.  The properties below are checked in  *)
(* every reachable state for every command of the sets they name.          *)
(***************************************************************************)
Last(q) == q[Len(q)]
Front(q) == SubSeq(q, 1, Len(q) - 1)

\* the messages a step from S to R enqueued for connection c
NewReplies(S, R, c) == SubSeq(R.out[c], Len(S.out[c]) + 1, Len(R.out[c]))

\* the actor's state once connection c's command has been processed
After(S, c, cmd) == process_command(S, cmd, c, c)

\* the replies connection c gets for the command
RepliesTo(S, c, cmd) == NewReplies(S, After(S, c, cmd), c)

Idle(c) == status = "running" /\ ~IsSome(transactions[c])

IsStream(st, k) == k \in DOMAIN st /\ st[k].value.tag = "Stream"
IsString(st, k) == k \in DOMAIN st /\ st[k].value.tag = "String"
StreamOf(st, k) == IF IsStream(st, k) THEN st[k].value.stream ELSE <<>>
\* explicit ids below, at and above every id the runs store
Ids == {StreamEntryId(ts, sq) : ts \in 0..(MaxClock + 1), sq \in 0..UsizeMax}
Bulk(str) == <<SendString(format_string(Some(str)))>>
ErrorReply(e) == <<SendString("-" \o e \o CRLF)>>
NullBulk == <<SendString("$-1" \o CRLF)>>

\* C1: every stream in the store has strictly increasing entry ids
C1_StreamsStrictlyIncreasing ==
    \A k \in DOMAIN store :
        \A i \in 1..(Len(StreamOf(store, k)) - 1) :
            IdLess(StreamOf(store, k)[i].id, StreamOf(store, k)[i + 1].id)

\* C2: no stream contains an entry with id (0,0)
C2_NoZeroZeroEntry ==
    \A k \in DOMAIN store :
        \A i \in 1..Len(StreamOf(store, k)) : StreamOf(store, k)[i].id # ZeroZero

\* the store once the entry id: a -> 1 is appended to the stream at k, or
\* begins a fresh stream where k is absent or holds a string
C3_Appended(k, id) ==
    [k2 \in DOMAIN store \cup {k} |->
        IF k2 # k THEN store[k2]
        ELSE IF IsStream(store, k)
        THEN [store[k] EXCEPT !.value.stream =
                  Append(@, StreamEntry(id, <<<<"a", "1">>>>))]
        ELSE Item(StreamValue(<<StreamEntry(id, <<<<"a", "1">>>>)>>), None)]

\* the actor C3 expects after XADD k id a 1: refused and nothing but the
\* error reply, or appended with that id, which is the reply
C3_Expected(k, id) ==
    IF id = ZeroZero
    THEN [Cur EXCEPT !.out["c1"] = @ \o ErrorReply(GreaterThanZeroZero)]
    ELSE IF IsStream(store, k) /\ IdLessEq(id, Last(StreamOf(store, k)).id)
    THEN [Cur EXCEPT !.out["c1"] = @ \o ErrorReply(EqualOrSmallerID)]
    ELSE [Cur EXCEPT !.out["c1"] = @ \o Bulk(IdToString(id)),
                     !.store = C3_Appended(k, id),
                     !.written = @ \cup {k}]

\* C3: XADD with an explicit id fails for 0-0 with GreaterThanZeroZero, fails
\* on an existing stream for an id <= the last id with EqualOrSmallerID, both
\* leaving the store as it was, and otherwise appends and returns that id
\* (stated where no blocking XREAD waits for a notification)
C3_ExplicitId ==
    (Idle("c1") /\ blocking_xreads = <<>>) =>
        \A k \in Keys, id \in Ids :
            After(Cur, "c1", <<"XADD", k, IdToString(id), "a", "1">>) = C3_Expected(k, id)

\* C3 has acted: an explicit id was stored, an equal one and 0-0 were refused
C3_Witness ==
    /\ blocking_xreads = <<>>
    /\ out["c1"] = Bulk("1-1") \o ErrorReply(EqualOrSmallerID)
                       \o ErrorReply(GreaterThanZeroZero)
    /\ StreamOf(store, "k1") = <<StreamEntry(StreamEntryId(1, 1), <<<<"a", "1">>>>)>>

\* the id C4's reference rule assigns; None where the rule refuses the request
C4_Rule(st, k, ts, now, star) ==
    IF IsStream(st, k)
    THEN LET last == Last(StreamOf(st, k)).id IN
         IF ts < last.timestamp
         THEN (IF star THEN Some(StreamEntryId(last.timestamp, last.sequence_number + 1))
               ELSE None)
         ELSE IF ts = last.timestamp
         THEN Some(StreamEntryId(ts, last.sequence_number + 1))
         ELSE Some(StreamEntryId(ts, 0))
    ELSE Some(StreamEntryId(ts, IF ts = 0 THEN 1 ELSE 0))

\* what C4 says of an auto-generated request taking the actor from Cur to R
C4_Outcome(k, rule, R) ==
    IF IsSome(rule)
    THEN /\ NewReplies(Cur, R, "c1") = Bulk(IdToString(Unwrap(rule)))
         /\ Last(StreamOf(R.store, k)).id = Unwrap(rule)
    ELSE /\ NewReplies(Cur, R, "c1") = ErrorReply(EqualOrSmallerID)
         /\ R.store = store

\* C4: the id assigned for ts-* and for * is the one the reference rule gives,
\* in every stream state and at every clock value
C4_AutoIdMatchesRule ==
    Idle("c1") =>
        \A k \in Keys :
            /\ \A ts \in 0..UsizeMax :
                   C4_Outcome(k, C4_Rule(store, k, ts, utc_now, FALSE),
                       After(Cur, "c1", <<"XADD", k, ToString(ts) \o "-*", "a", "1">>))
            /\ C4_Outcome(k, C4_Rule(store, k, utc_now, utc_now, TRUE),
                       After(Cur, "c1", <<"XADD", k, "*", "a", "1">>))

FieldLists == {<<"a", "1">>, <<"a", "1", "b", "2">>}
\* the pairs f1->v1, ..., fn->vn of an argument list f1 v1 ... fn vn
Pairs(fields) == [i \in 1..(Len(fields) \div 2) |-> <<fields[2 * i - 1], fields[2 * i]>>]

\* the stream C5 expects at k: what S had, then the new entry with its pairs
C5_Stream(k, fields, S, R) ==
    Append(StreamOf(S.store, k),
           StreamEntry(Last(StreamOf(R.store, k)).id, Pairs(fields)))

\* what C5 says of a successful XADD k * f1 v1 .. taking the actor from S to R,
\* S having a blocking XREAD of connection c2 on k
C5_Outcome(k, fields, S, R) ==
    (Running(R) /\ IsStream(R.store, k)) =>
        /\ Last(StreamOf(R.store, k)).values = Pairs(fields)
        /\ RepliesTo(R, "c1", <<"XRANGE", k, "-", "+">>) =
               <<SendString(format_stream(C5_Stream(k, fields, S, R)))>>
        /\ RepliesTo(R, "c1", <<"XREAD", "streams", k, "0-0">>) =
               <<SendString("*1" \o CRLF \o "*2" \o CRLF \o format_string(Some(k)) \o
                     format_stream(C5_Stream(k, fields, S, R)))>>
        /\ Last(R.out["c2"]) =
               SendString("*1" \o CRLF \o "*2" \o CRLF \o format_string(Some(k)) \o
                   "*1" \o CRLF \o "*2" \o CRLF \o
                   format_string(Some(IdToString(Last(StreamOf(R.store, k)).id))) \o
                   format_array(fields))

\* the state C5's XADD is sent in: c2 waits for entries of k
C5_Watched(k) == After(Cur, "c2", <<"XREAD", "block", "0", "streams", k, "0-0">>)

\* C5: the stored entry holds exactly the pairs f1->v1 .. fn->vn in order, and
\* XRANGE and the blocking-XREAD notification report f1, v1, .., fn, vn
C5_FieldsInOrder ==
    (Idle("c1") /\ Idle("c2")) =>
        \A k \in Keys, fields \in FieldLists :
            C5_Outcome(k, fields, C5_Watched(k),
                After(C5_Watched(k), "c1", <<"XADD", k, "*">> \o fields))

\* the replies C8 expects once SET k v has been processed, leaving R
C8_AfterSet(k, R) ==
    /\ RepliesTo(R, "c1", <<"TYPE", k>>) = <<SendString("+string" \o CRLF)>>
    /\ RepliesTo(R, "c1", <<"XRANGE", k, "-", "+">>) = <<SendString("*0" \o CRLF)>>

\* the replies C8 expects once XADD k id a 1 has been processed, leaving R
C8_AfterXadd(k, R) ==
    (Running(R) /\ R.store # store) =>
        /\ RepliesTo(R, "c1", <<"TYPE", k>>) = <<SendString("+stream" \o CRLF)>>
        /\ RepliesTo(R, "c1", <<"GET", k>>) = NullBulk
        /\ ~IsStream(store, k) => Len(StreamOf(R.store, k)) = 1

\* C8: after SET the key is a string and XRANGE finds no stream; after a
\* successful XADD it is a stream, a fresh one-entry stream where a string or
\* nothing was, and GET finds no string; a key never written reports none
C8_OneKindPerKey ==
    Idle("c1") =>
        /\ \A k \in Keys, tail \in {<<>>, <<"px", "1">>} :
               C8_AfterSet(k, After(Cur, "c1", <<"SET", k, "v1">> \o tail))
        /\ \A k \in Keys, id \in KindIds :
               C8_AfterXadd(k, After(Cur, "c1", <<"XADD", k, id, "a", "1">>))
        /\ \A k \in Keys \ written :
               RepliesTo(Cur, "c1", <<"TYPE", k>>) = <<SendString("+none" \o CRLF)>>

\* C8 has acted: SET, XADD and SET again on one key, which now holds a string
C8_Witness ==
    /\ out["c1"] = <<SendString("+OK" \o CRLF)>> \o Bulk("1-1") \o <<SendString("+OK" \o CRLF)>>
    /\ IsString(store, "k1")
    /\ written = {"k1"}

(***************************************************************************)
(* Runs over strings with a time to live: SET with and without px, GET and *)
(* TYPE, and a wall clock that moves.                                      *)
(***************************************************************************)
MaxPx == 2
PxValues == 1..MaxPx
TtlCmds ==
    {<<"SET", "k1", "v1", "px", ToString(T)>> : T \in PxValues}
        \cup {<<"SET", "k1", "v2">>, <<"GET", "k1">>, <<"TYPE", "k1">>}

TtlNext ==
    \/ \E cmd \in TtlCmds : ConnectionPoll("c1", cmd)
    \/ ActorPoll
    \/ \E t \in 0..MaxClock : UtcChange(t)

SpecTtl == StoreInit /\ [][TtlNext]_vars

\* the actor in state R when the wall clock reads t
AtTime(R, t) == [R EXCEPT !.utc_now = t]

\* what C6 says of GET k at the times t around a SET k v px T that left R
C6_AfterSetPx(k, v, T, R) ==
    \A t \in utc_now..(utc_now + T + 1) :
        RepliesTo(AtTime(R, t), "c1", <<"GET", k>>) =
            IF t - utc_now < T THEN Bulk(v) ELSE NullBulk

\* what C6 says of GET k at every time t after a SET k v that left R
C6_AfterSet(k, v, R) ==
    \A t \in utc_now..(MaxClock + MaxPx + 1) :
        RepliesTo(AtTime(R, t), "c1", <<"GET", k>>) = Bulk(v)

\* C6: after SET k v px T at time s, GET k returns v while t - s < T and the
\* null bulk from t - s = T on; after SET k v without px GET k returns v at
\* every later time, whatever expiry the key had before
C6_GetHonoursExpiry ==
    Idle("c1") =>
        \A k \in Keys, v \in Values :
            /\ \A T \in PxValues :
                   C6_AfterSetPx(k, v, T,
                       After(Cur, "c1", <<"SET", k, v, "px", ToString(T)>>))
            /\ C6_AfterSet(k, v, After(Cur, "c1", <<"SET", k, v>>))

\* the string stored at k has an expiry and the clock is past it
Elapsed(k) ==
    /\ IsString(store, k)
    /\ IsSome(store[k].expiry)
    /\ Unwrap(store[k].expiry) < utc_now

QueuedCmds ==
    {<<"SET", "k1", "v1">>, <<"SET", "k1">>, <<"GET", "k1">>,
     <<"XADD", "k1", "1-1", "a", "1">>, <<"PSYNC">>, <<"WAIT", "1", "1">>,
     <<"XREAD", "block", "0", "streams", "k1", "0-0">>, <<"REPLCONF", "ACK", "0">>,
     <<"MULTI">>}
TxCmds == QueuedCmds \cup {<<"EXEC">>, <<"DISCARD">>}
ReplicaCmds == {<<"PSYNC">>, <<"REPLCONF", "ACK", "0">>, <<"MULTI">>, <<"SET", "k1", "v2">>}

TxInit == Init /\ utc_now = 0 /\ overflow_checks = FALSE

TxNext ==
    \/ \E cmd \in TxCmds : ConnectionPoll("c1", cmd)
    \/ \E cmd \in ReplicaCmds : ConnectionPoll("c2", cmd)
    \/ ActorPoll
    \/ InstantAdvance

SpecTx == TxInit /\ [][TxNext]_vars

InTransaction(c) == status = "running" /\ IsSome(transactions[c])

\* the commands C9 sends inside a transaction
C9_Cmds ==
    QueuedCmds \cup ReplicaCmds \cup
        {<<"PING">>, <<"ECHO", "v1">>, <<"TYPE", "k1">>, <<"XRANGE", "k1", "-", "+">>,
         <<"XREAD", "streams", "k1", "0-0">>, <<"INFO", "replication">>,
         <<"REPLCONF", "listening-port", "1">>, <<"SET", "k2", "v1", "px", "1">>}

\* C9: in an open transaction a command other than EXEC and DISCARD is put
\* at the end of the queue and answered +QUEUED, and nothing else changes:
\* store, counters, replicas, pending WAIT, blocking XREADs, other outputs
C9_QueuedOnly ==
    \A c \in Conns :
        InTransaction(c) =>
            \A cmd \in C9_Cmds :
                After(Cur, c, cmd) =
                    [Cur EXCEPT
                        !.transactions[c] =
                            Some(Transaction(Unwrap(@).client_tx,
                                             Append(Unwrap(@).commands, cmd))),
                        !.out[c] = Append(@, SendString("+QUEUED" \o CRLF))]

\* C9 has acted: PSYNC and WAIT were queued, no replica and no WAIT exist
C9_Witness ==
    /\ transactions["c1"] = Some(Transaction("c1", <<<<"PSYNC">>, <<"WAIT", "1", "1">>>>))
    /\ out["c1"] = <<SendString("+OK" \o CRLF), SendString("+QUEUED" \o CRLF),
                     SendString("+QUEUED" \o CRLF)>>
    /\ replicas = <<>>
    /\ ~IsSome(wait_for_replication_acks)

\* the same commands arriving one after the other outside a transaction:
\* the state they leave and the array of their replies
RECURSIVE C10_Sequential(_, _, _, _)
C10_Step(S, S1, commands, c, message) ==
    C10_Sequential(S1, Tail(commands), c,
        message \o ConcatStrings([i \in 1..Len(NewReplies(S, S1, c)) |->
                                      NewReplies(S, S1, c)[i].v]))

C10_Sequential(S, commands, c, message) ==
    IF commands = <<>> THEN [S |-> S, message |-> message]
    ELSE C10_Step(S, process_simple_command(S, Head(commands), c, c), commands, c, message)

\* nothing but replies goes to c: it is no replica and waits for nothing
Registered(c) ==
    \/ \E i \in 1..Len(replicas) : replicas[i] = c
    \/ \E i \in 1..Len(blocking_xreads) : blocking_xreads[i].initial_client_tx = c
    \/ IsSome(wait_for_replication_acks)
           /\ Unwrap(wait_for_replication_acks).initial_client_tx = c

\* what C10 says of EXEC taking the actor from Cur to R, E being the outcome
\* of the queued commands outside a transaction
C10_Outcome(c, R, E) ==
    /\ Running(R)
    /\ NewReplies(Cur, R, c) = <<SendString(E.message)>>
    /\ R.store = E.S.store
    /\ R.replication_offset = E.S.replication_offset
    /\ \A c2 \in Conns \ {c} : R.out[c2] = E.S.out[c2]

\* C10: EXEC sends one reply, the array of the N replies the queued commands
\* produce outside a transaction, and leaves the store and the replicas'
\* streams as these commands do in that order
C10_ExecRepliesArray ==
    \A c \in Conns :
        (InTransaction(c) /\ ~Registered(c)) =>
            C10_Outcome(c, After(Cur, c, <<"EXEC">>),
                C10_Sequential([Cur EXCEPT !.transactions[c] = None],
                    Unwrap(transactions[c]).commands, c,
                    "*" \o ToString(Len(Unwrap(transactions[c]).commands)) \o CRLF))

\* C11: EXEC never suspends the actor: whatever the queue holds, the step
\* that processes EXEC ends with the actor running, and it is never parked
C11_ExecNeverSuspends ==
    /\ status # "blocked"
    /\ \A c \in Conns :
           InTransaction(c) => After(Cur, c, <<"EXEC">>).status # "blocked"

(***************************************************************************)
(* Runs of transactions over strings: client c1 opens, fills, runs and     *)
(* discards transactions of SET, INCR and CONFIG GET while c2 registers as *)
(* a replica.                                                              *)
(***************************************************************************)
QueueCmds ==
    {<<"MULTI">>, <<"EXEC">>, <<"DISCARD">>, <<"SET", "k1", "v1">>, <<"SET", "k1">>,
     <<"INCR", "k1">>, <<"CONFIG", "GET", "nokey">>}

QueueNext ==
    \/ \E cmd \in QueueCmds : ConnectionPoll("c1", cmd)
    \/ ConnectionPoll("c2", <<"PSYNC">>)
    \/ ActorPoll

SpecQueue == TxInit /\ [][QueueNext]_vars

\* the actor once connection c's commands have been processed in order
RECURSIVE AfterAll(_, _, _)
AfterAll(S, c, cmds) ==
    IF cmds = <<>> THEN S ELSE AfterAll(After(S, c, Head(cmds)), c, Tail(cmds))

Ok == SendString("+OK" \o CRLF)
Queued == SendString("+QUEUED" \o CRLF)

\* C12: DISCARD in a transaction replies +OK and removes the transaction,
\* and nothing else changes; MULTI, a command and DISCARD leave the actor as
\* it was before the MULTI, but for the three replies
C12_DiscardDropsQueue ==
    \A c \in Conns :
        /\ InTransaction(c) =>
               After(Cur, c, <<"DISCARD">>) =
                   [Cur EXCEPT !.transactions[c] = None, !.out[c] = Append(@, Ok)]
        /\ Idle(c) =>
               \A cmd \in QueuedCmds :
                   AfterAll(Cur, c, <<<<"MULTI">>, cmd, <<"DISCARD">>>>) =
                       [Cur EXCEPT !.out[c] = @ \o <<Ok, Queued, Ok>>]

\* C12 has acted: a command was queued and discarded, the store is empty
C12_Witness ==
    /\ out["c1"] = <<Ok, Queued, Ok>>
    /\ ~IsSome(transactions["c1"])
    /\ store = <<>> /\ replication_offset = 0 /\ replicas = <<>>
    /\ blocking_xreads = <<>> /\ status = "running"

\* the sum of the byte lengths of the elements of argv
RECURSIVE ArgvBytes(_)
ArgvBytes(argv) == IF argv = <<>> THEN 0 ELSE Len(Head(argv)) + ArgvBytes(Tail(argv))

\* argv as one RESP array of bulk strings
RECURSIVE RespBulks(_)
RespBulks(argv) ==
    IF argv = <<>> THEN ""
    ELSE "$" \o ToString(Len(Head(argv))) \o CRLF \o Head(argv) \o CRLF \o RespBulks(Tail(argv))
RespArray(argv) == "*" \o ToString(Len(argv)) \o CRLF \o RespBulks(argv)

\* the outboxes once msg is enqueued to every channel of chs, in that order;
\* a channel without receiver gets nothing
RECURSIVE Fanout(_, _, _)
Fanout(o, chs, msg) ==
    IF chs = <<>> THEN o
    ELSE Fanout(IF Head(chs) \in DOMAIN o THEN [o EXCEPT ![Head(chs)] = Append(@, msg)] ELSE o,
                Tail(chs), msg)

\* the actor C13 expects once S has processed the SET argv of connection c:
\* the value stored, +OK to c, then argv to every replica in list order
C13_Expected(S, c, argv) ==
    [S EXCEPT
        !.store = [k \in DOMAIN @ \cup {argv[2]} |->
                      IF k = argv[2]
                      THEN Item(StringValue(argv[3]),
                                IF Len(argv) = 5 THEN Some(S.utc_now + 1) ELSE None)
                      ELSE @[k]],
        !.out = Fanout([@ EXCEPT ![c] = Append(@, Ok)], S.replicas,
                       SendString(RespArray(argv))),
        !.replication_offset = @ + ArgvBytes(argv),
        !.written = @ \cup {argv[2]}]

SetForms == {<<"SET", "k1", "v1">>, <<"SET", "k2", "v2", "px", "1">>}

\* C13: a SET with key and value, in the step that processes it, stores the
\* value, enqueues +OK to the client and then argv as one array to every
\* registered replica in registration order; two SETs reach each replica in
\* the order they ran; a SET without key or value changes nothing
C13_SetPropagates ==
    \A c \in Conns :
        Idle(c) =>
            /\ \A argv \in SetForms : After(Cur, c, argv) = C13_Expected(Cur, c, argv)
            /\ AfterAll(Cur, c, <<<<"SET", "k1", "v1">>, <<"SET", "k1", "v2">>>>) =
                   C13_Expected(C13_Expected(Cur, c, <<"SET", "k1", "v1">>),
                                c, <<"SET", "k1", "v2">>)
            /\ After(Cur, c, <<"SET", "k1">>) = Cur
            /\ After(Cur, c, <<"SET">>) = Cur

\* the bytes C15 counts for one executed command, and for a list of them
C15_Bytes(cmd) == IF Verb(cmd) = "SET" /\ Len(cmd) >= 3 THEN ArgvBytes(cmd) ELSE 0
RECURSIVE C15_Sum(_)
C15_Sum(cmds) == IF cmds = <<>> THEN 0 ELSE C15_Bytes(Head(cmds)) + C15_Sum(Tail(cmds))

C15_Cmds ==
    {<<"SET", "k1", "v1">>, <<"set", "k2", "v2", "px", "1">>, <<"SET", "k1">>, <<"SET">>,
     <<"GET", "k1">>, <<"INCR", "k1">>, <<"XADD", "k1", "1-1", "a", "1">>,
     <<"WAIT", "0", "1">>, <<"WAIT", "1", "1">>, <<"REPLCONF", "ACK", "0">>,
     <<"REPLCONF", "capa", "psync2">>, <<"PING">>}

\* the offset EXEC leaves in R: that of the queued commands it has executed,
\* all of them unless the actor stopped on the way
C15_Exec(R, commands) ==
    IF Running(R)
    THEN R.replication_offset = replication_offset + C15_Sum(commands)
    ELSE \E n \in 0..Len(commands) :
             R.replication_offset = replication_offset + C15_Sum(SubSeq(commands, 1, n))

\* C15: the replication offset grows by the byte lengths of the argv of every
\* SET executed with key and value, directly or under EXEC, and by nothing
\* else: no other command, no queued or discarded SET, no deadline check
C15_OffsetCountsSets ==
    /\ poll(Cur, <<>>).S.replication_offset = replication_offset
    /\ \A c \in Conns :
           /\ Idle(c) =>
                  \A cmd \in C15_Cmds :
                      After(Cur, c, cmd).replication_offset
                          = replication_offset + C15_Bytes(cmd)
           /\ InTransaction(c) =>
                  /\ \A cmd \in C15_Cmds \cup {<<"DISCARD">>} :
                         After(Cur, c, cmd).replication_offset = replication_offset
                  /\ C15_Exec(After(Cur, c, <<"EXEC">>), Unwrap(transactions[c]).commands)

\* a SET with key and value was queued and then run under EXEC
C15_Witness ==
    /\ replication_offset = ArgvBytes(<<"SET", "k1", "v1">>)
    /\ Len(out["c1"]) = 3 /\ out["c1"][1] = Ok /\ out["c1"][2] = Queued
    /\ ~IsSome(transactions["c1"])

(***************************************************************************)
(* Runs of WAIT: client c1 writes and waits, c2 registers as a replica and *)
(* acknowledges, the monotonic clock advances.                             *)
(***************************************************************************)
WaitCmds ==
    {<<"SET", "k1", "v1">>, <<"WAIT", "0", "1">>, <<"WAIT", "1", "1">>,
     <<"WAIT", "2", "0">>, <<"WAIT", "3", "1000">>}

WaitNext ==
    \/ \E cmd \in WaitCmds : ConnectionPoll("c1", cmd)
    \/ \E cmd \in {<<"PSYNC">>, <<"REPLCONF", "ACK", "0">>} : ConnectionPoll("c2", cmd)
    \/ ActorPoll
    \/ InstantAdvance

SpecWait == TxInit /\ [][WaitNext]_vars

IntegerReply(n) == SendString(":" \o ToString(n) \o CRLF)

\* C17: WAIT 0 replies :0, and WAIT n with the checkpoint equal to the offset
\* replies the number of registered replicas whatever n is; in both cases
\* nothing else changes: no GETACK, no pending WAIT set or replaced, same
\* checkpoint
C17_WaitRepliesAtOnce ==
    \A c \in Conns :
        Idle(c) =>
            /\ \A t \in {<<>>, <<"1">>, <<"1000">>} :
                   After(Cur, c, <<"WAIT", "0">> \o t) =
                       [Cur EXCEPT !.out[c] = Append(@, IntegerReply(0))]
            /\ last_offset_checked = replication_offset =>
                   \A n \in {"1", "2", "3"} :
                       After(Cur, c, <<"WAIT", n, "1000">>) =
                           [Cur EXCEPT !.out[c] = Append(@, IntegerReply(Len(replicas)))]

\* two replicas are registered, nothing was written, and WAIT 3 1000 was
\* answered :2 with no WAIT left pending
C17_Witness ==
    /\ Len(replicas) = 2
    /\ replication_offset = 0 /\ last_offset_checked = 0
    /\ out["c1"] = <<IntegerReply(2)>>
    /\ ~IsSome(wait_for_replication_acks)

\* the actor C18 expects once S has processed WAIT n 1 of connection c:
\* GETACK enqueued once for every replica, no reply, the WAIT pending
C18_Asked(S, c, n) ==
    [S EXCEPT
        !.out = Fanout(@, S.replicas, SendString(RespArray(<<"REPLCONF", "GETACK", "*">>))),
        !.wait_for_replication_acks =
            Some([initial_client_tx |-> c, expected_number_of_acks |-> n,
                  number_of_acks |-> 0, timeout |-> Some(S.instant + 1)])]

C18_Asks(S, c) ==
    (Running(S) /\ ~IsSome(S.transactions[c])
         /\ S.last_offset_checked # S.replication_offset) =>
        \A n \in 1..2 :
            After(S, c, <<"WAIT", ToString(n), "1">>) = C18_Asked(S, c, n)

\* the actor C18 expects after a poll that finds the ACKs of acks queued
\* while task is pending: one reply with the ACKs so far once they suffice or
\* the deadline has passed, and nothing but the count before that
C18_Checked(task, got) ==
    IF got >= task.expected_number_of_acks
           \/ (IsSome(task.timeout) /\ Unwrap(task.timeout) <= instant)
    THEN [Cur EXCEPT !.out[task.initial_client_tx] = Append(@, IntegerReply(got)),
                     !.last_offset_checked = replication_offset,
                     !.wait_for_replication_acks = None]
    ELSE [Cur EXCEPT !.wait_for_replication_acks = Some([task EXCEPT !.number_of_acks = got])]

C18_Acks(c) ==
    {<<>>, <<NewBuffer(Command(<<"REPLCONF", "ACK", "0">>), c, c)>>,
     <<NewBuffer(Command(<<"REPLCONF", "ACK", "0">>), c, c),
       NewBuffer(Command(<<"REPLCONF", "ACK", "0">>), c, c)>>}

\* C18: WAIT n with n > 0 and the checkpoint behind the offset sends GETACK
\* once to every registered replica and no reply; the reply comes, once, at
\* the first deadline check that finds enough ACKs or the deadline passed,
\* with the ACKs received so far; the checkpoint then equals the offset and
\* no WAIT is pending
C18_WaitAsksThenReplies ==
    /\ \A c \in Conns :
           /\ C18_Asks(Cur, c)
           /\ C18_Asks(After(Cur, c, <<"EXEC">>), c)
    /\ (status = "running" /\ IsSome(wait_for_replication_acks) /\ blocking_xreads = <<>>) =>
           \A c \in Conns :
               ~IsSome(transactions[c]) =>
                   \A acks \in C18_Acks(c) :
                       poll(Cur, acks).S =
                           C18_Checked(Unwrap(wait_for_replication_acks),
                                       Unwrap(wait_for_replication_acks).number_of_acks
                                           + Len(acks))

\* the entries XREAD returns for stream k from id on, and the reply of an
\* XREAD of that one stream
C19_Entries(k, id) == get_stream_range(store, k, parse_stream_entry_id(id), None)
C19_Reply(k, id) ==
    SendString("*1" \o CRLF \o "*2" \o CRLF \o format_string(Some(k))
                   \o format_stream(C19_Entries(k, id)))

\* C19: XREAD with block registers a task and sends no reply only if no
\* requested stream has an entry to return, with deadline now+ms for ms > 0
\* and none for ms = 0; otherwise it replies at once and registers nothing,
\* as XREAD without block always does
C19_BlockOnlyWhenEmpty ==
    \A c \in Conns :
        Idle(c) =>
            \A k \in Keys, id \in {"0-0", "0-1", "1-1"} :
                /\ After(Cur, c, <<"XREAD", "streams", k, id>>) =
                       [Cur EXCEPT !.out[c] = Append(@, C19_Reply(k, id))]
                /\ \A ms \in 0..UsizeMax :
                       After(Cur, c, <<"XREAD", "block", ToString(ms), "streams", k, id>>) =
                           IF C19_Entries(k, id) # <<>>
                           THEN [Cur EXCEPT !.out[c] = Append(@, C19_Reply(k, id))]
                           ELSE [Cur EXCEPT !.blocking_xreads = Append(@,
                                    [initial_client_tx |-> c, streams |-> <<k>>,
                                     timeout |-> IF ms > 0 THEN Some(instant + ms)
                                                 ELSE None])]

\* whether a registered task watches stream k
Watches(task, k) == \E i \in 1..Len(task.streams) : task.streams[i] = k

\* the channels of the tasks of a list that watch k, in registration order
RECURSIVE Watchers(_, _)
Watchers(tasks, k) ==
    IF tasks = <<>> THEN <<>>
    ELSE (IF Watches(Head(tasks), k) THEN <<Head(tasks).initial_client_tx>> ELSE <<>>)
             \o Watchers(Tail(tasks), k)

\* the state C20's XADD is sent in: c2 waits for k1, then for k2, then c1
\* waits for k1
C20_Waiting ==
    After(AfterAll(Cur, "c2", <<<<"XREAD", "block", "0", "streams", "k1", "0-0">>,
                                <<"XREAD", "block", "0", "streams", "k2", "0-0">>>>),
          "c1", <<"XREAD", "block", "0", "streams", "k1", "0-0">>)

\* what C20 says of XADD k1 .. a 1 taking the actor from S to R: stored, it is
\* answered and then sent to the watchers of k1 in order, which leave the
\* list; refused, it changes neither the list nor what the tasks were sent
C20_Outcome(S, R) ==
    IF Running(R) /\ R.store # S.store
    THEN /\ R.out =
              Fanout([S.out EXCEPT !["c1"] = Append(@, SendString(format_string(
                          Some(IdToString(Last(StreamOf(R.store, "k1")).id)))))],
                     Watchers(S.blocking_xreads, "k1"),
                     SendString("*1" \o CRLF \o "*2" \o CRLF \o format_string(Some("k1")) \o
                         "*1" \o CRLF \o "*2" \o CRLF \o
                         format_string(Some(IdToString(Last(StreamOf(R.store, "k1")).id))) \o
                         format_array(<<"a", "1">>)))
         /\ R.blocking_xreads = SelectSeq(S.blocking_xreads, LAMBDA t : ~Watches(t, "k1"))
    ELSE /\ R.blocking_xreads = S.blocking_xreads
         /\ R.out["c2"] = S.out["c2"]

\* C20: a successful XADD on k sends the entry to every registered task that
\* watches k, in registration order, and removes these tasks; the other tasks
\* stay and get nothing; a failed XADD notifies and removes nothing
C20_XaddWakesAndRemoves ==
    (Idle("c1") /\ Idle("c2")) =>
        \A id \in KindIds :
            C20_Outcome(C20_Waiting, After(C20_Waiting, "c1", <<"XADD", "k1", id, "a", "1">>))

(***************************************************************************)
(* Runs of deferred requests: client c1 registers blocking XREADs with and *)
(* without deadline and a WAIT, client c2 adds entries, writes and reads,  *)
(* the monotonic clock advances.                                           *)
(***************************************************************************)
BlockCmds ==
    {<<"XREAD", "block", "1", "streams", "k1", "0-0">>,
     <<"XREAD", "block", "0", "streams", "k1", "0-0">>,
     <<"SET", "k1", "v1">>, <<"WAIT", "1", "2">>}
OtherCmds == {<<"XADD", "k1", "*", "a", "1">>, <<"PSYNC", "?", "-1">>}

BlockNext ==
    \/ \E cmd \in BlockCmds : ConnectionPoll("c1", cmd)
    \/ \E cmd \in OtherCmds : ConnectionPoll("c2", cmd)
    \/ ActorPoll
    \/ InstantAdvance

SpecBlock == TxInit /\ [][BlockNext]_vars

\* a registered task whose deadline has come
Due(task) == IsSome(task.timeout) /\ Unwrap(task.timeout) <= instant

\* the channels of the tasks of a list that are due, in registration order
RECURSIVE DueChannels(_)
DueChannels(tasks) ==
    IF tasks = <<>> THEN <<>>
    ELSE (IF Due(Head(tasks)) THEN <<Head(tasks).initial_client_tx>> ELSE <<>>)
             \o DueChannels(Tail(tasks))

\* whether list p is the beginning of list q
IsPrefix(p, q) == Len(p) <= Len(q) /\ SubSeq(q, 1, Len(p)) = p

C21_Cmds ==
    BlockCmds
        \cup {<<"XADD", "k1", "*", "a", "1">>, <<"GET", "k2">>, <<"XADD", "k1", "0-0", "a", "1">>,
              <<"XREAD", "block", "2", "streams", "k2", "0-0">>}

\* the command of connection c that led to R removed no task and sent the
\* null reply to no other connection
C21_Untouched(c, R) ==
    /\ IsPrefix(blocking_xreads, R.blocking_xreads)
    /\ \A d \in Conns \ {c} :
           \A i \in (Len(out[d]) + 1)..Len(R.out[d]) : R.out[d][i] # NullBulk[1]

\* C21: the deadline check sends the null bulk reply to every task whose
\* deadline is at or before now and removes it, and leaves every other task
\* alone, those without deadline whatever the time; processing a command
\* neither removes a task nor sends the null reply to another connection
C21_NullAtDeadline ==
    status = "running" =>
        /\ check_on_blocking_xreads(Cur) =
               [Cur EXCEPT !.out = Fanout(@, DueChannels(blocking_xreads), NullBulk[1]),
                           !.blocking_xreads = SelectSeq(@, LAMBDA t : ~Due(t))]
        /\ poll(Cur, <<>>).S.blocking_xreads = SelectSeq(blocking_xreads, LAMBDA t : ~Due(t))
        /\ \A c \in Conns, cmd \in C21_Cmds : C21_Untouched(c, After(Cur, c, cmd))

\* the task with deadline got the null reply and is gone, the one
\* registered with block 0 is still there after the clock has reached its end
C21_Witness ==
    /\ out["c1"] = NullBulk
    /\ blocking_xreads =
           <<[initial_client_tx |-> "c1", streams |-> <<"k1">>, timeout |-> None]>>
    /\ instant = MaxClock

\* the part of an XREAD reply for stream k: the entries of k after id
C22_After(k, id) ==
    "*2" \o CRLF \o format_string(Some(k)) \o
        format_stream(SelectSeq(StreamOf(store, k), LAMBDA e : IdLess(IdOfToken[id], e.id)))

C22_Ids == {"0-0", "0-1", "1-1"}

\* C22: XREAD streams k1..kN id1..idN returns for ki the entries of ki whose
\* id is strictly greater than idi, in stream order, and not the entry whose
\* id is idi
C22_XreadStrictlyAfter ==
    \A c \in Conns :
        Idle(c) =>
            /\ \A k \in Keys, id \in C22_Ids :
                   RepliesTo(Cur, c, <<"XREAD", "streams", k, id>>) =
                       <<SendString("*1" \o CRLF \o C22_After(k, id))>>
            /\ \A id1 \in C22_Ids, id2 \in C22_Ids :
                   RepliesTo(Cur, c, <<"XREAD", "streams", "k1", "k2", id1, id2>>) =
                       <<SendString("*2" \o CRLF \o C22_After("k1", id1)
                                         \o C22_After("k2", id2))>>

(***************************************************************************)
(* Runs of range reads: one client fills stream k1, stores a string at k2  *)
(* and reads ranges of both.                                               *)
(***************************************************************************)
RangeCmds ==
    {<<"XADD", "k1", "0-1", "a", "1">>, <<"XADD", "k1", "1-1", "a", "1">>,
     <<"XADD", "k1", "1-*", "a", "1">>, <<"SET", "k2", "v1">>,
     <<"XRANGE", "k1", "1-1", "+">>, <<"XRANGE", "k1", "-", "0-1">>,
     <<"XRANGE", "k2", "-", "+">>}

RangeNext ==
    \/ \E cmd \in RangeCmds : ConnectionPoll("c1", cmd)
    \/ ActorPoll

SpecRange == TxInit /\ [][RangeNext]_vars

\* the entries of stream k between two bounds, "-" and "+" for none
C23_Between(k, start, end) ==
    SelectSeq(StreamOf(store, k),
        LAMBDA e : /\ (start # "-" => IdLessEq(IdOfToken[start], e.id))
                   /\ (end # "+" => IdLessEq(e.id, IdOfToken[end])))

\* C23: XRANGE k start end replies the entries of stream k with
\* start <= id <= end in stream order, '-' and '+' putting no bound, the
\* empty array for a key that is absent or holds a string, and changes
\* nothing else
C23_XrangeInclusive ==
    \A c \in Conns :
        Idle(c) =>
            \A k \in Keys, start \in {"-", "0-1", "1-0", "1-1"}, end \in {"+", "0-1", "1-0", "1-1"} :
                /\ After(Cur, c, <<"XRANGE", k, start, end>>) =
                       [Cur EXCEPT !.out[c] =
                           Append(@, SendString(format_stream(C23_Between(k, start, end))))]
                /\ ~IsStream(store, k) =>
                       RepliesTo(Cur, c, <<"XRANGE", k, start, end>>)
                           = <<SendString("*0" \o CRLF)>>

\* k1 holds 0-1 and 1-1, and XRANGE k1 1-1 + was answered with 1-1 alone
C23_Witness ==
    /\ Len(StreamOf(store, "k1")) = 2
    /\ Len(out["c1"]) = 3
    /\ out["c1"][3] = SendString(format_stream(
           <<StreamEntry(StreamEntryId(1, 1), IndexMapCollect(<<>>, <<<<"a", "1">>>>))>>))

\* what a connection can forward: commands with missing or malformed
\* arguments, INFO without its section, and frames that are no command
C24_Frames ==
    {Command(cmd) : cmd \in {<<"SET", "k1">>, <<"GET">>, <<"XADD", "k1">>, <<"WAIT", "x">>,
                             <<"INFO">>, <<"INFO", "server">>, <<"INFO", "replication">>}}
        \cup {[kind |-> "String", cmd |-> <<"hello">>]}

\* C24: whatever frame one connection sends, the master actor is still
\* running after the poll that takes it, and a command of another
\* connection is answered afterwards
C24_NoFrameFailsActor ==
    status = "running" =>
        \A c \in Conns, f \in C24_Frames :
            LET R == poll(Cur, <<NewBuffer(f, c, c)>>).S IN
            /\ R.status = "running"
            /\ \A d \in Conns \ {c} :
                   ~IsSome(R.transactions[d]) => RepliesTo(R, d, <<"ECHO", "hi">>) = Bulk("hi")

(***************************************************************************)
(* Runs of the decoder: a connection reads one buffer made of the frames   *)
(* a peer wrote, decodes it and forwards what it decoded to the actor.     *)
(***************************************************************************)
SimpleFrame(s) == [t |-> "simple", v |-> <<s>>]
BulkFrame(s) == [t |-> "bulk", v |-> <<s>>]
BlobFrame(b) == [t |-> "blob", v |-> <<b>>]
ArrayFrame(argv) == [t |-> "array", v |-> argv]
RawFrame(bytes) == [t |-> "raw", v |-> <<bytes>>]

\* the bytes a peer writes for a frame
FrameBytes(f) ==
    CASE f.t = "simple" -> "+" \o f.v[1] \o CRLF
      [] f.t = "bulk" -> "$" \o ToString(Len(f.v[1])) \o CRLF \o f.v[1] \o CRLF
      [] f.t = "blob" -> "$" \o ToString(Len(f.v[1])) \o CRLF \o f.v[1]
      [] f.t = "array" -> format_array(f.v)
      [] f.t = "raw" -> f.v[1]

WireBytes(frames) == ConcatStrings([i \in 1..Len(frames) |-> FrameBytes(frames[i])])

GoodFrames ==
    {SimpleFrame("OK"), SimpleFrame(""), BulkFrame("PING"), BulkFrame(""),
     BlobFrame(EmptyRdb), ArrayFrame(<<"SET", "k1", "v1">>), ArrayFrame(<<"get", "k1">>),
     ArrayFrame(<<"Echo", "a" \o CRLF \o "b">>), ArrayFrame(<<"SET", "k2", "">>),
     ArrayFrame(<<"PING">>)}

BadFrames ==
    {RawFrame(":1" \o CRLF), RawFrame("-ERR x" \o CRLF), RawFrame("$x" \o CRLF),
     RawFrame("*x" \o CRLF), ArrayFrame(<<"NOPE", "k1">>), ArrayFrame(<<>>)}

DecodeBuffers ==
    {<<f>> : f \in GoodFrames \cup BadFrames}
        \cup {<<f, g>> : f \in GoodFrames \cup BadFrames, g \in GoodFrames \cup BadFrames}
        \cup {<<SimpleFrame("OK"), BlobFrame(EmptyRdb), f>> : f \in GoodFrames}

\* Connection::poll reading one buffer: parse_buffer decodes it, every
\* element is forwarded to the actor; the panic of parse_buffer ends the
\* server's loop
ConnectionRead(c, frames) ==
    /\ status = "running"
    /\ wire = <<>>
    /\ ncmds < MaxCmds
    /\ wire' = frames
    /\ decoded' = parse_buffer(WireBytes(frames))
    /\ rx' = rx \o [i \in 1..Len(decoded'.elements) |-> NewBuffer(decoded'.elements[i], c, c)]
    /\ status' = IF decoded'.panicked THEN "panicked" ELSE status
    /\ ncmds' = ncmds + 1
    /\ UNCHANGED <<store, replication_offset, last_offset_checked, replicas,
                   wait_for_replication_acks, blocking_xreads, transactions, out,
                   utc_now, instant, rdb_readable, overflow_checks, written,
                   replica, delivered, closed, handshake>>

DecodeNext ==
    \/ \E frames \in DecodeBuffers : ConnectionRead("c1", frames)
    \/ \E cmd \in {<<"SET", "k1", "v2">>, <<"GET", "k1">>} : ConnectionPoll("c2", cmd)
    \/ ActorPoll

SpecDecode == TxInit /\ [][DecodeNext]_vars

\* a frame the decoder can make an item of, and that item
Decodable(f) ==
    \/ f.t \in {"simple", "bulk", "blob"}
    \/ f.t = "array" /\ f.v # <<>> /\ to_uppercase(f.v[1]) \in CommandVerbs
ItemOf(f) ==
    CASE f.t \in {"simple", "bulk"} -> BufString(f.v[1])
      [] f.t = "blob" -> DBFile(f.v[1])
      [] f.t = "array" -> Command(f.v)
Items(frames) ==
    LET kept == SelectSeq(frames, Decodable) IN [i \in 1..Len(kept) |-> ItemOf(kept[i])]

\* C25: the decoder returns a result for every buffer: a frame it cannot
\* decode is dropped, the frames before and after it are emitted in order,
\* and decoding does not abort the server
C25_UndecodableDropped ==
    wire # <<>> =>
        /\ ~decoded.panicked
        /\ decoded.elements = Items(wire)

\* C26: a buffer of well-formed frames (simple strings, bulk strings, one
\* snapshot without trailing CRLF, command arrays) is decoded to exactly one
\* item per frame, in order: a bulk string followed by CRLF is a string, one
\* that is not is the snapshot, and the bytes after it are the next frames
C26_OneItemPerFrame ==
    (wire # <<>> /\ \A i \in 1..Len(wire) : wire[i] \in GoodFrames) =>
        decoded = [elements |-> [i \in 1..Len(wire) |-> ItemOf(wire[i])], panicked |-> FALSE]

\* the greeting, the snapshot and a write command were read in one buffer
C26_Witness ==
    /\ wire = <<SimpleFrame("OK"), BlobFrame(EmptyRdb), ArrayFrame(<<"SET", "k1", "v1">>)>>
    /\ decoded.elements[2] = DBFile(EmptyRdb)
    /\ Len(decoded.elements) = 3

\* C27: an argv with a recognized verb in any case and any strings as
\* arguments, the empty one and ones holding CR LF included, encoded by
\* format_array, is decoded to one Command with that argv and the verb in
\* upper case; a concatenation of such arrays to the same sequence
C27_RoundTrip ==
    (wire # <<>> /\ \A i \in 1..Len(wire) : wire[i].t = "array" /\ Decodable(wire[i])) =>
        /\ ~decoded.panicked
        /\ Len(decoded.elements) = Len(wire)
        /\ \A i \in 1..Len(wire) :
               /\ decoded.elements[i].kind = "Command"
               /\ decoded.elements[i].cmd = wire[i].v
               /\ Verb(decoded.elements[i].cmd) \in CommandVerbs
               /\ parse_buffer(format_array(wire[i].v)).elements = <<decoded.elements[i]>>

\* a lower-case GET and an ECHO of a string holding CR LF came back as sent
C27_Witness ==
    /\ wire = <<ArrayFrame(<<"get", "k1">>), ArrayFrame(<<"Echo", "a" \o CRLF \o "b">>)>>
    /\ Len(decoded.elements) = 2
    /\ decoded.elements[2].cmd[2] = "a" \o CRLF \o "b"

(***************************************************************************)
(* Runs of a master with one replica: the replica's handshake reaches the  *)
(* master on connection c2, then client c1 writes; the replica reads what  *)
(* the master enqueued for c2, applies it, answers, and serves one local   *)
(* client.                                                                 *)
(***************************************************************************)
ReplConn == "c2"
ReplCmds ==
    {<<"SET", "k1", "v1">>, <<"set", "k1", "v2">>, <<"SET", "k2">>, <<"INCR", "k1">>,
     <<"GET", "k1">>, <<"MULTI">>, <<"EXEC">>, <<"DISCARD">>, <<"WAIT", "1", "1">>}
LocalCmds == {<<"GET", "k1">>, <<"ECHO", "hi">>}

\* the argvs that can cross the link, and the largest offset a replica reports
WireCmds ==
    {c \in ReplCmds \cup QueuedCmds \cup ReplicaCmds : Verb(c) = "SET"}
        \cup {<<"REPLCONF", "GETACK", "*">>}
MaxWire ==
    CHOOSE n \in {Len(format_array(c)) : c \in WireCmds} :
        \A c \in WireCmds : Len(format_array(c)) <= n
AckCmds == {<<"REPLCONF", "ACK", ToString(n)>> : n \in 0..(MaxWire * (MaxCmds + MaxQueue))}

\* RedisStream::read of one message: the command a RESP array of bulk strings
\* encodes; a simple string or the snapshot is no command
CommandOfWire ==
    [w \in {format_array(c) : c \in WireCmds \cup AckCmds} |->
        CHOOSE c \in WireCmds \cup AckCmds : format_array(c) = w]
read(msg) ==
    IF msg.t = "SendString" /\ msg.v \in DOMAIN CommandOfWire
    THEN Command(CommandOfWire[msg.v])
    ELSE [kind |-> "Other", cmd |-> <<>>]

\* init_replication: the PSYNC that ends the handshake reaches the master
Handshake ==
    /\ status = "running" /\ ncmds = 0 /\ rx = <<>> /\ replicas = <<>>
    /\ rx' = Append(rx, NewBuffer(Command(<<"PSYNC", "?", "-1">>), ReplConn, ReplConn))
    /\ UNCHANGED <<store, replication_offset, last_offset_checked, replicas,
                   wait_for_replication_acks, blocking_xreads, transactions, out,
                   status, utc_now, instant, rdb_readable, overflow_checks, written,
                   ncmds, replica, delivered, wire, decoded, closed, handshake>>

\* Connection::poll on the replica's link to the master: the next message
\* the master sent is read and forwarded to the replica actor
MasterLinkPoll ==
    /\ replica.status = "running"
    /\ delivered < Len(out[ReplConn])
    /\ delivered' = delivered + 1
    /\ replica' = [replica EXCEPT
                      !.rx_master = Append(@, read(out[ReplConn][delivered + 1]))]
    /\ UNCHANGED <<store, replication_offset, last_offset_checked, replicas,
                   wait_for_replication_acks, blocking_xreads, transactions, rx, out,
                   status, utc_now, instant, rdb_readable, overflow_checks, written,
                   ncmds, wire, decoded, closed, handshake>>

\* Connection::poll of a client of the replica
ReplicaClientPoll(cmd) ==
    /\ replica.status = "running"
    /\ ncmds < MaxCmds
    /\ Len(replica.rx_clients) < MaxQueue
    /\ replica' = [replica EXCEPT !.rx_clients = Append(@, Command(cmd))]
    /\ ncmds' = ncmds + 1
    /\ UNCHANGED <<store, replication_offset, last_offset_checked, replicas,
                   wait_for_replication_acks, blocking_xreads, transactions, rx, out,
                   status, utc_now, instant, rdb_readable, overflow_checks, written,
                   delivered, wire, decoded, closed, handshake>>

\* ReplicaActor::poll
ReplicaPoll ==
    /\ replica.status = "running"
    /\ replica.rx_master # <<>> \/ replica.rx_clients # <<>>
    /\ replica' = replica_poll(replica, utc_now)
    /\ UNCHANGED <<store, replication_offset, last_offset_checked, replicas,
                   wait_for_replication_acks, blocking_xreads, transactions, rx, out,
                   status, utc_now, instant, rdb_readable, overflow_checks, written,
                   ncmds, delivered, wire, decoded, closed, handshake>>

\* the replica's answer goes out on the link and the master's connection
\* forwards it to the master actor
ReplicaLinkFlush ==
    /\ status = "running"
    /\ replica.to_master # <<>>
    /\ Len(rx) < MaxQueue
    /\ rx' = Append(rx, NewBuffer(read(Head(replica.to_master)), ReplConn, ReplConn))
    /\ replica' = [replica EXCEPT !.to_master = Tail(@)]
    /\ UNCHANGED <<store, replication_offset, last_offset_checked, replicas,
                   wait_for_replication_acks, blocking_xreads, transactions, out,
                   status, utc_now, instant, rdb_readable, overflow_checks, written,
                   ncmds, delivered, wire, decoded, closed, handshake>>

ReplInit == Init /\ utc_now = 0 /\ overflow_checks = FALSE /\ rdb_readable = TRUE

ReplNext ==
    \/ Handshake
    \/ \E cmd \in ReplCmds : replicas # <<>> /\ ConnectionPoll("c1", cmd)
    \/ ActorPoll
    \/ InstantAdvance
    \/ MasterLinkPoll
    \/ \E cmd \in LocalCmds : ReplicaClientPoll(cmd)
    \/ ReplicaPoll
    \/ ReplicaLinkFlush

SpecRepl == ReplInit /\ [][ReplNext]_vars

\* the replica has applied every message the master sent it, and the master
\* has nothing left to process
Synced ==
    /\ status = "running" /\ replica.status = "running"
    /\ rx = <<>> /\ replica.rx_master = <<>>
    /\ replicas = <<ReplConn>>
    /\ delivered = Len(out[ReplConn])

\* C14: once the replica registered by PSYNC has applied all the master sent
\* it, GET k answers the same on the replica as on the master for every key
\* the master wrote by SET or INCR, directly or under EXEC
C14_ReplicaEquivalent ==
    Synced =>
        \A k \in written :
            Last(replica_process_get(replica, <<"GET", k>>, "to_client", utc_now).to_client)
                = Last(process_get(Cur, <<"GET", k>>, "c1").out["c1"])

\* the bytes C16 counts for the commands of a queue filled by the master
C16_Counted(cmd) ==
    IF Verb(cmd) \in {"PING", "SET", "REPLCONF"} THEN Len(RespArray(cmd)) ELSE 0
RECURSIVE C16_Sum(_)
C16_Sum(queue) ==
    IF queue = <<>> THEN 0
    ELSE (IF Head(queue).kind = "Command" THEN C16_Counted(Head(queue).cmd) ELSE 0)
             + C16_Sum(Tail(queue))

C16_Local ==
    {<<"PING">>, <<"SET", "k1", "v1">>, <<"REPLCONF", "GETACK", "*">>, <<"GET", "k1">>,
     <<"ECHO", "hi">>}

\* C16: the replica's offset grows by the encoded length of every command
\* the master sent whose verb is PING, SET or REPLCONF in any letter case,
\* and by nothing else: no other verb, no command of a local client
C16_AppliedBytes ==
    replica.status = "running" =>
        /\ replica_poll(replica, utc_now).replication_offset
               = replica.replication_offset + C16_Sum(replica.rx_master)
        /\ \A cmd \in C16_Local :
               replica_poll([replica EXCEPT !.rx_master = <<>>,
                                            !.rx_clients = <<Command(cmd)>>],
                            utc_now).replication_offset
                   = replica.replication_offset

C28_Writes == {<<"SET", "k1", "v9">>, <<"INCR", "k1">>, <<"XADD", "k1", "*", "a", "1">>}

\* C28: a write command (SET, INCR, XADD) a local client sends to the
\* replica is refused: the poll that takes it leaves the replica's store as
\* it was
C28_LocalWriteRefused ==
    replica.status = "running" =>
        \A cmd \in C28_Writes :
            replica_poll([replica EXCEPT !.rx_master = <<>>,
                                         !.rx_clients = <<Command(cmd)>>],
                         utc_now).store
                = replica.store

\* the connections a deferred request will be answered to
C29_Owners ==
    {blocking_xreads[i].initial_client_tx : i \in 1..Len(blocking_xreads)}
        \cup {wait_for_replication_acks[i].initial_client_tx :
                  i \in 1..Len(wait_for_replication_acks)}

C29_Cmds ==
    {<<"GET", "k2">>, <<"SET", "k1", "v2">>, <<"XADD", "k1", "*", "a", "1">>,
     <<"INCR", "k2">>}

\* the actor without its deferred requests
C29_Cleared == [Cur EXCEPT !.wait_for_replication_acks = None, !.blocking_xreads = <<>>]

\* what C29 says of the poll that took the actor to r, E being the effect of
\* the command with no request deferred
C29_Drained(c, r, E) ==
    /\ r.rx = <<>>
    /\ r.S.status = "running"
    /\ r.S.store = E.store
    /\ NewReplies(Cur, r.S, c) = NewReplies(Cur, E, c)
    /\ NewReplies(Cur, r.S, c) # <<>>

\* C29: while a WAIT is pending or a blocking XREAD is registered, a
\* command of another connection is executed and answered by the poll that
\* drains it, as it is with no request deferred
C29_DeferredNeverParks ==
    (status = "running" /\ C29_Owners # {}) =>
        \A c \in Conns \ C29_Owners :
            ~IsSome(transactions[c]) =>
                \A cmd \in C29_Cmds :
                    C29_Drained(c, poll(Cur, <<NewBuffer(Command(cmd), c, c)>>),
                                After(C29_Cleared, c, cmd))

\* c1's XREAD is registered and c2's XADD was executed and answered
C29_Witness ==
    /\ blocking_xreads # <<>>
    /\ status = "running"
    /\ rx = <<>>
    /\ blocking_xreads[1].initial_client_tx = "c1"
    /\ Len(StreamOf(store, "k1")) = 1
    /\ out["c2"] = Bulk("0-1")
    /\ Len(out["c1"]) = 1

(***************************************************************************)
(* Runs with connections that close: clients and replicas come, send and   *)
(* go.                                                                     *)
(***************************************************************************)
\* Connection::poll once the peer has closed the socket: RedisStream::read
\* returns None, nothing is forwarded and the connection stays in the loop
ConnectionClose(c) ==
    /\ status = "running"
    /\ c \notin closed
    /\ closed' = closed \cup {c}
    /\ UNCHANGED <<store, replication_offset, last_offset_checked, replicas,
                   wait_for_replication_acks, blocking_xreads, transactions, rx, out,
                   status, utc_now, instant, rdb_readable, overflow_checks, written,
                   ncmds, replica, delivered, wire, decoded, handshake>>

CloseCmds ==
    {<<"PSYNC", "?", "-1">>, <<"SET", "k1", "v1">>, <<"MULTI">>, <<"EXEC">>,
     <<"REPLCONF", "listening-port", "1">>}

CloseNext ==
    \/ \E c \in Conns, cmd \in CloseCmds : c \notin closed /\ ConnectionPoll(c, cmd)
    \/ \E c \in Conns : ConnectionClose(c)
    \/ ActorPoll

SpecClose == TxInit /\ [][CloseNext]_vars

\* the snapshot was readable, and every connection whose channel is in the
\* list got it
C30_OnlyAfterPsync ==
    \A i \in 1..Len(replicas) :
        /\ rdb_readable
        /\ replicas[i] \in Conns =>
               \E j \in 1..Len(out[replicas[i]]) : out[replicas[i]][j] = SendBytes(EmptyRdb)

\* C30: a channel is in the replica list only after a PSYNC that sent the
\* snapshot, never when the snapshot is unreadable, and the channel of a
\* connection that closed is no longer in the list once the actor has polled
C30_ReplicasAreLive ==
    /\ C30_OnlyAfterPsync
    /\ status = "running" =>
           \A c \in closed :
               \A i \in 1..Len(poll(Cur, rx).S.replicas) : poll(Cur, rx).S.replicas[i] # c

\* the commands C31 queues between MULTI and the EXEC or DISCARD
C31_Queues ==
    {<<>>, <<<<"MULTI">>>>, <<<<"SET", "k1", "v1">>, <<"MULTI">>>>,
     <<<<"MULTI">>, <<"GET", "k1">>>>, <<<<"INCR", "k2">>>>,
     <<<<"PSYNC">>, <<"MULTI">>, <<"PING">>>>}

\* what C31 says of the actor R that connection c's EXEC or DISCARD left
C31_Ended(c, R) ==
    Running(R) =>
        /\ ~IsSome(R.transactions[c])
        /\ RepliesTo(R, c, <<"GET", "k1">>) # <<Queued>>
        /\ RepliesTo(R, c, <<"EXEC">>) = ErrorReply("ERR EXEC without MULTI")
        /\ RepliesTo(R, c, <<"DISCARD">>) = ErrorReply("ERR DISCARD without MULTI")

\* C31: after EXEC or DISCARD from a connection no transaction exists for
\* it, also when MULTI was among the queued commands: its next command is
\* executed and not answered +QUEUED, and a following EXEC or DISCARD gets
\* the 'without MULTI' error
C31_NoTransactionAfterEnd ==
    \A c \in Conns :
        Idle(c) =>
            \A q \in C31_Queues, end \in {<<"EXEC">>, <<"DISCARD">>} :
                C31_Ended(c, AfterAll(Cur, c, <<<<"MULTI">>>> \o q \o <<end>>))

\* the actor C32 expects once S, with a WAIT pending, has processed
\* WAIT n ms of connection c: GETACK to every replica, no reply to anyone,
\* and the pending record replaced by one for c with no ACK counted
C32_Replaced(S, c, n, ms) ==
    [S EXCEPT
        !.out = Fanout(@, S.replicas, SendString(RespArray(<<"REPLCONF", "GETACK", "*">>))),
        !.wait_for_replication_acks =
            Some([initial_client_tx |-> c, expected_number_of_acks |-> n,
                  number_of_acks |-> 0, timeout |-> Some(S.instant + ms)])]

\* what C32 says of the poll that follows the replacement and takes R to P:
\* nobody but c is sent anything, and c at most one integer
C32_OnlySecond(c, R, P) ==
    /\ \A d \in Conns \ {c} : P.out[d] = R.out[d]
    /\ Len(NewReplies(R, P, c)) <= 1
    /\ IsSome(P.wait_for_replication_acks) =>
           Unwrap(P.wait_for_replication_acks).initial_client_tx = c

C32_Second(S, c) ==
    \A n \in 1..2, ms \in 0..1 :
        LET R == After(S, c, <<"WAIT", ToString(n), ToString(ms)>>) IN
        /\ R = C32_Replaced(S, c, n, ms)
        /\ C32_OnlySecond(c, R, poll(R, <<>>).S)

\* C32: a deferred WAIT accepted while another is pending replaces the
\* pending record: the first WAIT's client is sent nothing, the ACK count
\* restarts from 0 whatever was counted, and the poll that follows answers
\* the second client alone
C32_SecondWaitReplaces ==
    (status = "running" /\ IsSome(wait_for_replication_acks)) =>
        \A c \in Conns :
            ~IsSome(transactions[c]) =>
                /\ C32_Second(Cur, c)
                /\ \A d \in Conns :
                       ~IsSome(transactions[d]) =>
                           C32_Second(After(Cur, d, <<"REPLCONF", "ACK", "0">>), c)

\* c1's SET was answered, its WAIT 3 1000 was not, and its WAIT 1 1 sent a
\* millisecond later is the pending one
C32_Witness ==
    /\ ncmds = 3
    /\ rx = <<>>
    /\ out["c1"] = <<Ok>>
    /\ instant = 1
    /\ wait_for_replication_acks =
           Some([initial_client_tx |-> "c1", expected_number_of_acks |-> 1,
                 number_of_acks |-> 0, timeout |-> Some(2)])

\* the bytes of the PING, SET and REPLCONF commands among the first n
\* messages the master sent on the link
RECURSIVE C33_Received(_)
C33_Received(n) ==
    IF n = 0 THEN 0
    ELSE C33_Received(n - 1)
             + (IF read(out[ReplConn][n]).kind = "Command"
                THEN C16_Counted(read(out[ReplConn][n]).cmd) ELSE 0)

\* the replica once it has polled two more GETACKs after what it has read
C33_Asked ==
    replica_poll([replica EXCEPT
                     !.rx_master = @ \o <<Command(GetAck), Command(GetAck)>>,
                     !.rx_clients = <<>>],
                 utc_now)

C33_Ack(n) == SendString(RespArray(<<"REPLCONF", "ACK", ToString(n)>>))

\* C33: the offset of a REPLCONF ACK is the encoded length of the PING, SET
\* and REPLCONF commands the master sent before the GETACK it answers, the
\* GETACK itself being counted after the reply: the next GETACK is answered
\* with that offset plus the encoded length of one GETACK
C33_AckBeforeCount ==
    replica.status = "running" =>
        LET R == C33_Asked
            n == Len(R.to_master)
        IN  /\ n >= 2
            /\ R.to_master[n - 1] = C33_Ack(C33_Received(delivered))
            /\ R.to_master[n] = C33_Ack(C33_Received(delivered) + Len(RespArray(GetAck)))

(***************************************************************************)
(* Runs of the replica's handshake (ReplicaActor::init_replication) with a *)
(* master that serves a client at the same time.  handshake.pc counts the  *)
(* statements done: at an even pc a command is sent, at an odd pc the      *)
(* blocking read is waited for.                                            *)
(***************************************************************************)
HandshakeCmds ==
    <<<<"PING">>, <<"REPLCONF", "listening-port", "6380">>,
      <<"REPLCONF", "capa", "psync2">>, <<"PSYNC", "?", "-1">>>>

HandshakeEnd == 2 * Len(HandshakeCmds) - 1

\* master_stream.send_string: the command leaves, and the master's
\* connection forwards it to the actor as long as the master runs
HandshakeSend ==
    /\ handshake.pc < HandshakeEnd /\ handshake.pc % 2 = 0
    /\ Len(rx) < MaxQueue
    /\ LET cmd == HandshakeCmds[(handshake.pc \div 2) + 1] IN
       /\ handshake' = [handshake EXCEPT !.pc = @ + 1, !.sent = Append(@, cmd)]
       /\ rx' = IF status = "running"
                THEN Append(rx, NewBuffer(Command(cmd), ReplConn, ReplConn))
                ELSE rx
    /\ UNCHANGED <<store, replication_offset, last_offset_checked, replicas,
                   wait_for_replication_acks, blocking_xreads, transactions, out,
                   status, utc_now, instant, rdb_readable, overflow_checks, written,
                   ncmds, replica, delivered, wire, decoded, closed>>

\* master_stream.read on the blocking socket: it returns with what the
\* master sent, or with nothing once the master's socket is closed, the
\* master having stopped; init_replication goes on with either
HandshakeRead ==
    /\ handshake.pc % 2 = 1 /\ handshake.pc < HandshakeEnd
    /\ \/ /\ delivered < Len(out[ReplConn])
          /\ delivered' = Len(out[ReplConn])
          /\ handshake' = [handshake EXCEPT !.pc = @ + 1, !.got = @ + 1]
       \/ /\ delivered = Len(out[ReplConn])
          /\ status # "running"
          /\ delivered' = delivered
          /\ handshake' = [handshake EXCEPT !.pc = @ + 1]
    /\ UNCHANGED <<store, replication_offset, last_offset_checked, replicas,
                   wait_for_replication_acks, blocking_xreads, transactions, rx, out,
                   status, utc_now, instant, rdb_readable, overflow_checks, written,
                   ncmds, replica, wire, decoded, closed>>

ShakeCmds == {<<"SET", "k1", "v1">>, <<"GET", "k1">>, <<"INFO">>, <<"INCR", "k1">>}

ShakeNext ==
    \/ HandshakeSend
    \/ HandshakeRead
    \/ \E cmd \in ShakeCmds : ConnectionPoll("c1", cmd)
    \/ ActorPoll

SpecShake == ReplInit /\ [][ShakeNext]_vars

\* C34: the handshake sends PING, REPLCONF listening-port <port>, REPLCONF
\* capa psync2 and PSYNC ? -1, in this order and nothing else; each of the
\* last three is sent only once a reply to the one before it was received;
\* the replica's offset is 0 when the handshake is done
C34_HandshakeInOrder ==
    /\ IsPrefix(handshake.sent, HandshakeCmds)
    /\ handshake.got >= Len(handshake.sent) - 1
    /\ handshake.pc = HandshakeEnd =>
           /\ handshake.sent = HandshakeCmds
           /\ replica.replication_offset = 0

(***************************************************************************)
(* Runs of a transaction beside another client: c1 sends MULTI and its     *)
(* commands in one buffer, then EXEC or DISCARD, while c2 writes the keys.  *)
(***************************************************************************)
AtomicBuffers ==
    {<<ArrayFrame(<<"MULTI">>)>>,
     <<ArrayFrame(<<"MULTI">>), ArrayFrame(<<"INCR", "k1">>)>>,
     <<ArrayFrame(<<"MULTI">>), ArrayFrame(<<"SET", "k2", "v1">>)>>,
     <<ArrayFrame(<<"MULTI">>), ArrayFrame(<<"SET", "k1", "1">>), ArrayFrame(<<"INCR", "k1">>)>>,
     <<ArrayFrame(<<"MULTI">>), ArrayFrame(<<"INCR", "k1">>), ArrayFrame(<<"GET", "k2">>)>>}

AtomicWrites == {<<"SET", "k1", "1">>, <<"SET", "k2", "v2">>, <<"INCR", "k1">>}

AtomicNext ==
    \/ \E frames \in AtomicBuffers : ConnectionRead("c1", frames)
    \/ \E cmd \in {<<"EXEC">>, <<"DISCARD">>, <<"INCR", "k1">>} : ConnectionPoll("c1", cmd)
    \/ \E cmd \in AtomicWrites : ConnectionPoll("c2", cmd)
    \/ ActorPoll

SpecAtomic == TxInit /\ [][AtomicNext]_vars

\* the store the first n commands of c's queue leave when run one after the
\* other on S with no transaction open for c
C35_Run(S, c, n) ==
    C10_Sequential([S EXCEPT !.transactions[c] = None],
                   SubSeq(Unwrap(S.transactions[c]).commands, 1, n), c, "").S.store

\* what C35 says of EXEC taking S to R: the store is the one the queued
\* commands leave when run in a row on S's store, all of them once EXEC was
\* answered
C35_Contiguous(S, c, R) ==
    /\ \E n \in 0..Len(Unwrap(S.transactions[c]).commands) : R.store = C35_Run(S, c, n)
    /\ NewReplies(S, R, c) # <<>> =>
           R.store = C35_Run(S, c, Len(Unwrap(S.transactions[c]).commands))

\* what C35 says of a write of connection d taking Cur to W while c's
\* transaction is open: it is executed as with no transaction open, the
\* queue stays as it is, and EXEC then runs the queue on the store it left
C35_Visible(c, d, cmd, W) ==
    /\ W.store = After([Cur EXCEPT !.transactions[c] = None], d, cmd).store
    /\ W.transactions[c] = transactions[c]
    /\ C35_Contiguous(W, c, After(W, c, <<"EXEC">>))

\* C35: EXEC runs the queued commands in a row on the store as it is then:
\* no command of another connection comes between them, while the writes
\* other connections made between MULTI and EXEC are executed at once and
\* are seen by the queued commands
C35_ExecContiguous ==
    \A c \in Conns :
        InTransaction(c) =>
            /\ C35_Contiguous(Cur, c, After(Cur, c, <<"EXEC">>))
            /\ \A d \in Conns \ {c} :
                   ~IsSome(transactions[d]) =>
                       \A cmd \in AtomicWrites : C35_Visible(c, d, cmd, After(Cur, d, cmd))
            /\ \A d \in Conns \ {c}, cmd \in AtomicWrites :
                   LET r == poll(Cur, <<NewBuffer(Command(<<"EXEC">>), c, c),
                                        NewBuffer(Command(cmd), d, d)>>).S
                   IN  r = PollChecks([S |-> After(After(Cur, c, <<"EXEC">>), d, cmd),
                                       rx |-> <<>>]).S

\* c1 queued INCR k1, c2 then set k1 to 1, and c1's EXEC made it 2
C35_Witness ==
    /\ out["c1"] = <<Ok, Queued, SendString("*1" \o CRLF \o ":2" \o CRLF)>>
    /\ out["c2"] = <<Ok>>
    /\ wire = <<ArrayFrame(<<"MULTI">>), ArrayFrame(<<"INCR", "k1">>)>>
    /\ rx = <<>>

\* the actor once c2 has added n entries to k1 after state S
RECURSIVE C36_Xadds(_, _)
C36_Xadds(S, n) ==
    IF n = 0 THEN S ELSE C36_Xadds(After(S, "c2", <<"XADD", "k1", "*", "a", "1">>), n - 1)

\* the deadline check of S run when the monotonic clock shows t
C36_CheckAt(S, t) == check_on_blocking_xreads([S EXCEPT !.instant = t])

\* what C36 says of the XREAD that took the actor to W: c1 is sent at most
\* one message, whether entries are added to k1, the deadline comes, or both
C36_AtMostOne(W) ==
    \A n \in 0..2 :
        /\ Len(NewReplies(Cur, C36_Xadds(W, n), "c1")) <= 1
        /\ Len(NewReplies(Cur, C36_CheckAt(C36_Xadds(W, n), MaxClock + 2), "c1")) <= 1

\* C36: a blocking XREAD is answered at most once over its lifetime: by one
\* notification of one entry or by one null bulk at its deadline, never by
\* both and never by two notifications, however many XADDs follow
C36_XreadAnsweredOnce ==
    (Idle("c1") /\ Idle("c2") /\ blocking_xreads = <<>>) =>
        \A ms \in {"0", "1"} :
            C36_AtMostOne(After(Cur, "c1", <<"XREAD", "block", ms, "streams", "k1", "0-0">>))

\* n REPLCONF ACK frames of connection d, as they wait in the actor's queue
C37_Acks(d, n) ==
    [i \in 1..n |-> NewBuffer(Command(<<"REPLCONF", "ACK", "0">>), d, d)]

\* what C37 says of the pending WAIT once the actor in state R has polled:
\* its client got nothing yet, or an integer no larger than the number of
\* registered replicas
C37_Bounded(R) ==
    NewReplies(Cur, R, Unwrap(wait_for_replication_acks).initial_client_tx)
        \in {<<>>} \cup {<<IntegerReply(k)>> : k \in 0..Len(replicas)}

\* C37: the integer a deferred WAIT replies never exceeds the number of
\* replicas registered: a replica is counted once, and ACK frames of a
\* connection that is no replica are not counted
C37_AcksBoundedByReplicas ==
    (status = "running" /\ IsSome(wait_for_replication_acks)) =>
        \A d \in Conns, n \in 0..2 :
            ~IsSome(transactions[d]) => C37_Bounded(poll(Cur, C37_Acks(d, n)).S)

\* the commands c1 sends before its last one: answered at once, or deferred
C38_Earlier ==
    {<<<<"GET", "k1">>>>,
     <<<<"XREAD", "streams", "k1", "0-0">>>>,
     <<<<"XREAD", "block", "0", "streams", "k1", "0-0">>>>,
     <<<<"XREAD", "block", "1", "streams", "k1", "0-0">>>>,
     <<<<"SET", "k1", "v1">>, <<"WAIT", "1", "2">>>>}

\* the actor once c1 has sent the commands and then SET k2 v1, c2 has added
\* an entry to k1, and every deadline has passed
C38_Settled(cmds) ==
    poll([After(AfterAll(Cur, "c1", cmds \o <<<<"SET", "k2", "v1">>>>),
                "c2", <<"XADD", "k1", "*", "a", "1">>)
             EXCEPT !.instant = MaxClock + 3],
         <<>>).S

\* what C38 says of the replies c1 was sent: the one to its last command is
\* the last one
C38_LastIsLast(new) == new # <<>> /\ Last(new) = Ok

\* C38: the replies of a connection are enqueued in the order of its
\* commands, also when an earlier command is a WAIT or a blocking XREAD: the
\* reply to SET k2 v1 comes after the replies to the commands sent before it
C38_RepliesInOrder ==
    (Idle("c1") /\ Idle("c2") /\ blocking_xreads = <<>> /\ ~IsSome(wait_for_replication_acks)) =>
        \A cmds \in C38_Earlier :
            Running(C38_Settled(cmds)) =>
                C38_LastIsLast(NewReplies(Cur, C38_Settled(cmds), "c1"))

\* the connections whose channel is in the replica list
C39_ReplicaConns == {d \in Conns : \E i \in 1..Len(replicas) : replicas[i] = d}

\* what C39 says of SET k1 v1 of connection c taking the actor to R: each
\* replica connection is sent the command once, the others nothing
C39_SentOnce(c, R) ==
    Running(R) =>
        \A d \in Conns :
            Len(NewReplies(Cur, R, d)) =
                (IF d = c THEN 1 ELSE 0) + (IF d \in C39_ReplicaConns THEN 1 ELSE 0)

\* C39: the replica list holds the channel of a connection at most once,
\* whether it sent PSYNC twice or inside a transaction, so a SET is
\* propagated once to each replica connection and the count WAIT replies at
\* once is the number of distinct replica connections
C39_ReplicasDistinct ==
    /\ \A i, j \in 1..Len(replicas) : replicas[i] = replicas[j] => i = j
    /\ \A i \in 1..Len(replicas) : replicas[i] \in Conns
    /\ \A c \in Conns :
           Idle(c) =>
               /\ C39_SentOnce(c, After(Cur, c, <<"SET", "k1", "v1">>))
               /\ replication_offset = last_offset_checked =>
                      RepliesTo(Cur, c, <<"WAIT", "1", "0">>) =
                          <<IntegerReply(Cardinality(C39_ReplicaConns))>>

\* the requests C40 is about for a stream whose last id is last: ts-* at its
\* timestamp, and * when the clock is not past it
C40_Requests(last) ==
    {ToString(last.timestamp) \o "-*"}
        \cup (IF utc_now <= last.timestamp THEN {"*"} ELSE {})

\* what C40 says of a request taking the store to R: no entry is appended
\* whose id is at or below the last one
C40_NoWrap(k, R) ==
    Len(StreamOf(R.store, k)) > Len(StreamOf(store, k)) =>
        IdLess(Last(StreamOf(store, k)).id, Last(StreamOf(R.store, k)).id)

\* C40: generating a sequence number never wraps around: with the largest
\* sequence number in the last entry, XADD ts-* at its timestamp and XADD *
\* with the clock at or before it append no entry with an id at or below the
\* last one
C40_SequenceNeverWraps ==
    Idle("c1") =>
        \A k \in Keys :
            (IsStream(store, k) /\ Last(StreamOf(store, k)).id.sequence_number = UsizeMax) =>
                \A id \in C40_Requests(Last(StreamOf(store, k)).id) :
                    C40_NoWrap(k, After(Cur, "c1", <<"XADD", k, id, "a", "1">>))

====
